---------------------------- MODULE Spec2Model ----------------------------
(***************************************************************************)
(* FlowFit backend: the authentication routes (database-backed and         *)
(* Redis-backed refresh-token storage), the auth rate limiter and the      *)
(* streak computation of GET /progress/streaks.                            *)
(*                                                                         *)
(* Time is counted in whole seconds since the epoch: the JWT library       *)
(* stamps iat/exp in seconds, and every other duration of the program is   *)
(* a multiple of a second.                                                 *)
(***************************************************************************)
EXTENDS Integers, Sequences, FiniteSets, TLC

VARIABLES
    backend,        \* which auth router is mounted: "db" (RefreshToken table) or "redis"
    redisOn,        \* REDIS_URL is set, i.e. the redis client is not null
    now,            \* the clock, in seconds
    ticks,          \* how often the clock has advanced (bounds the model)
    users,          \* User rows: [UserIds -> NoUser or the stored password hash]
    refreshTokens,  \* RefreshToken rows: set of [token, userId, expiresAt]
    redisStore,     \* redis keys refresh:<userId>: [UserIds -> {} or {[value, expiresAt]}]
    issued,         \* token payloads handed to a client in a 200/201 answer
    limiter,        \* authLimiter's store entry of the client: [hits, resetTime]
    req,            \* the requests in flight: [Slots -> request record]
    quota,          \* how many more requests the clients may start (bounds the model)
    hist,           \* history: the refresh tokens rotated, logged out, and issued before
                    \* a password change of their user
    workoutLogs,    \* WorkoutLog rows: set of [userId, completedAt]
    streakResp,     \* the last GET /progress/streaks answer: {} or {[userId, logs, data]}
    server,         \* which entry file runs: "server.ts", "part_002" or "api/index.ts"
    hreq,           \* the GET /health requests in flight: [Slots -> request record]
    enrollKey,      \* the enrollment table has the unique key (userId, programId):
                    \* TRUE for program.routes.ts, whose lookup names the key
                    \* userId_programId; either for part_003, whose findFirst
                    \* names none
    enrollments,    \* enrollment rows: set of [id, userId, programId, currentWeek,
                    \* currentDay, completedDays, completedAt, isActive]
    ereq,           \* the /programs requests in flight: [Slots -> request record]
    preq,           \* requests to the protected routers in flight: [Slots -> record]
    handled,        \* the <<router, user id>> pairs for which a route handler ran
    profiles,       \* the Profile table: the user ids that have a profile row
    today,          \* the calendar day of the clock (server-local), as a day number
    dayLogs,        \* WorkoutLog rows of the second progress router: [id, userId, day]
    streaks,        \* the Streak table: [UserIds -> set of at most one row
                    \* [currentStreak, longestStreak, lastWorkoutDate]]
    lreq,           \* the POST /progress requests in flight: [Slots -> request record]
    held,           \* history: the currentStreak values each user's row has held
    missed,         \* history: the users for whom an updateStreak call threw
    exitCode,       \* the process's exit code, Running while it has not exited
    connections,    \* open HTTP connections (server.close waits for them)
    tasks,          \* the gracefulShutdown calls: [1..MaxSignals -> [pc, timer]]
    events,         \* history: the shutdown steps completed, in order
    seedSecret,     \* process.env.SEED_SECRET, as a set: {} when it is not set
    seeded,         \* the groups of rows the seed route has upserted
    sreq,           \* the GET /seed requests in flight: [Slots -> request record]
    achResp         \* the last answer of GET /progress/achievements, as a set

authVars == <<backend, redisOn, now, ticks, users, refreshTokens, redisStore, issued,
              limiter, req, quota, hist>>
streakVars == <<workoutLogs, streakResp>>
healthVars == <<server, hreq>>
enrollVars == <<enrollKey, enrollments, ereq>>
gateVars == <<preq, handled>>
profileVars == <<profiles>>
trackVars == <<today, dayLogs, streaks, lreq, held, missed>>
shutVars == <<exitCode, connections, tasks, events>>
seedVars == <<seedSecret, seeded, sreq>>
achVars == <<achResp>>
appVars == <<healthVars, enrollVars, gateVars, profileVars, trackVars, shutVars, seedVars,
             achVars>>
vars == <<authVars, streakVars, appVars>>

None == "none"

\* Registered e-mail addresses; a user's id is modelled by its e-mail address
\* (both are unique per user and users are never deleted).
UserIds == {"a@fit", "b@fit"}

(***************************************************************************)
(* Tokens, passwords and the stores                                        *)
(***************************************************************************)
\* Model bounds: concurrent requests, clock advances, requests started.
MaxSlots == 2
MaxSignals == 2
MaxSeedRequests == 3
MaxConnections == 2
MaxTicks == 1
MaxRequests == 3

Slots == 1..MaxSlots

\* ACCESS_EXPIRES = '15m' and REFRESH_EXPIRES = '7d', in seconds.
AccessExpiresSec == 900
RefreshExpiresSec == 604800

\* jwt.sign({ userId }, secret, { expiresIn }): the payload is { userId, iat, exp }
\* with iat the current time in whole seconds and exp = iat + expiresIn; the
\* signature is a function of payload and secret, so two tokens signed for one
\* user with one secret within one second are the same string.  kind names the
\* secret: "refresh", "access", or "forged" for a string signed with neither.
Token(kind, uid, iat) == [kind |-> kind, uid |-> uid, iat |-> iat]
NoToken == Token("missing", None, 0)
ForgedToken == Token("forged", None, 0)

\* generateTokens(userId): the pair shares userId and iat.
generateTokens(uid) ==
    [accessToken |-> Token("access", uid, now), refreshToken |-> Token("refresh", uid, now)]

\* jwt.verify(token, JWT_REFRESH_SECRET) returns the payload (does not throw).
VerifiesRefresh(t) == t.kind = "refresh" /\ now < t.iat + RefreshExpiresSec
\* A verification that looks at the expiry alone.
VerifiesUnexpired(t) == t.kind \in {"access", "refresh"} /\ now < t.iat + AccessExpiresSec
\* jwt.verify(token, JWT_ACCESS_SECRET) returns the payload (does not throw).
VerifiesAccess(t) == t.kind = "access" /\ now < t.iat + AccessExpiresSec

\* bcrypt.hash(password, 12) and bcrypt.compare(password, hash).
NoUser == <<>>
Hash(password) == <<"bcrypt", password>>
Compare(password, hash) == hash = Hash(password)

\* Request bodies tried: "" is a missing field, "short" has fewer than eight
\* characters.
MinPasswordLen == 8

\* password.length < 4 in place of password.length < 8.
TooShortFour(password) == Len(password) < 4

\* password.length < 8 (newPassword.length < 8)
TooShort(password) == Len(password) < MinPasswordLen
RegisterBodies ==
    { [name |-> "Ann", email |-> e, password |-> p] : e \in UserIds, p \in {"password1", "short"} }
        \cup {[name |-> "", email |-> "a@fit", password |-> "short"]}
LoginBodies ==
    { [email |-> e, password |-> p] : e \in UserIds, p \in {"password1", "password2"} }
        \cup {[email |-> "", password |-> "password1"]}
ChangePasswordBodies ==
    { [currentPassword |-> "password1", newPassword |-> "password2"],
      [currentPassword |-> "password2", newPassword |-> "password1"],
      [currentPassword |-> "password1", newPassword |-> "short"],
      [currentPassword |-> "", newPassword |-> "short"] }

\* The refresh tokens a client can present: the ones it was handed, a string
\* that was never signed with the refresh secret, or none.
PresentableRefresh == { Token("refresh", p.uid, p.iat) : p \in issued } \cup {ForgedToken, NoToken}
PresentableAccess == { Token("access", p.uid, p.iat) : p \in issued } \cup {ForgedToken, NoToken}

\* Rows of the RefreshToken table with this token (token is a unique column).
RowsOfToken(t) == { row \in refreshTokens : row.token = t }

\* storeRefreshToken's row (database-backed): expiresAt is seven days from now.
NewRow(uid, t) == [token |-> t, userId |-> uid, expiresAt |-> now + RefreshExpiresSec]

\* redis.get(`refresh:${uid}`): the value, unless the key is missing or expired.
RedisGet(uid) == { e.value : e \in { x \in redisStore[uid] : now < x.expiresAt } }
\* redis.set(`refresh:${uid}`, token, 'EX', 7 * 24 * 60 * 60)
RedisSet(uid, t) ==
    [redisStore EXCEPT ![uid] = {[value |-> t, expiresAt |-> now + RefreshExpiresSec]}]
\* redis.del(`refresh:${uid}`)
RedisDel(uid) == [redisStore EXCEPT ![uid] = {}]

\* stored && stored.expiresAt < new Date(), in place of the condition below.
StoredExpired(t) == \E row \in RowsOfToken(t) : row.expiresAt < now

\* !stored || stored.expiresAt < new Date()
StoredInvalid(t) == \A row \in RowsOfToken(t) : row.expiresAt < now

\* The checks POST /auth/refresh makes of a presented token, taken together:
\* the signature and expiry, the stored token (the table row; the redis key,
\* looked at only when redis is configured), and the user.
Accepted(t) ==
    /\ VerifiesRefresh(t)
    /\ IF backend = "db" THEN ~StoredInvalid(t) ELSE (redisOn => RedisGet(t.uid) = {t})
    /\ users[t.uid] # NoUser

\* History of a successful refresh, of a logout presenting a token that was
\* accepted until then, and of a password change of user uid.
Rotated(rq) == IF rq.op = "refresh" THEN [hist EXCEPT !.rotated = @ \cup {rq.token}] ELSE hist
LoggedOut(t) == IF Accepted(t) THEN [hist EXCEPT !.loggedOut = @ \cup {t}] ELSE hist
PasswordChanged(uid) ==
    [hist EXCEPT !.stale = @ \cup { Token("refresh", p.uid, p.iat) : p \in {q \in issued : q.uid = uid} }]
Replay(t) == { h \in {"rotated", "loggedOut"} : t \in hist[h] }

(***************************************************************************)
(* Requests                                                                *)
(***************************************************************************)
\* replay is history: whether the presented refresh token had been rotated or
\* logged out when the request arrived.
IdleReq == [op |-> None, pc |-> "idle", status |-> 0, email |-> "", password |-> "",
            newPassword |-> "", token |-> NoToken, newTok |-> NoToken, replay |-> {}]

\* A slot that holds no request in flight.  New requests take the lowest free
\* slot (the slots are interchangeable).
Free(r) == req[r].pc \in {"idle", "done"}
FreeSlot(r) == Free(r) /\ \A q \in Slots : q < r => ~Free(q)
At(r, op, pc) == req[r].op = op /\ req[r].pc = pc

\* res.status(code).json(...): the request is over; what the answer and the
\* claims need of it is kept, the handler's other locals are dropped.
Answer(rq, code) == [rq EXCEPT !.pc = "done", !.status = code, !.email = ""]

\* The handler goes on to its next awaited operation.
Goto(rq, pc) == [rq EXCEPT !.pc = pc]

(***************************************************************************)
(* authLimiter (express-rate-limit, keyed by client; one client modelled)  *)
(***************************************************************************)
\* windowMs: 60 * 60 * 1000 and max: 10.
AuthWindowSec == 3600
AuthLimiterMax == 10

\* The store's increment: a fresh window starts with the first hit after the
\* previous one ran out.  The count is capped one above the limit (every
\* further hit is refused alike).
LimiterHit ==
    IF now >= limiter.resetTime
    THEN [hits |-> 1, resetTime |-> now + AuthWindowSec]
    ELSE [limiter EXCEPT !.hits = IF @ > AuthLimiterMax THEN @ ELSE @ + 1]

\* The middleware calls next() unless the count exceeds max (then 429).
LimiterAdmits(l) == l.hits <= AuthLimiterMax

\* The clock advances by d seconds.
Tick(d) ==
    /\ ticks < MaxTicks
    /\ now' = now + d
    /\ ticks' = ticks + 1
    /\ UNCHANGED <<backend, redisOn, users, refreshTokens, redisStore, issued, limiter,
                   req, quota, hist, streakVars, appVars>>

(***************************************************************************)
(* POST /auth/register                                                     *)
(***************************************************************************)
SetReq(r, rq) == req' = [req EXCEPT ![r] = rq]

\* An awaited database or redis operation either takes effect or throws.
Faults == BOOLEAN

\* authLimiter, then the body validation, up to the awaited user.findUnique
\* (the same lines in both routers).
RegisterStart(r, name, email, password) ==
    /\ FreeSlot(r)
    /\ quota > 0
    /\ limiter' = LimiterHit
    /\ LET rq == [IdleReq EXCEPT !.op = "register", !.email = email, !.password = password]
       IN  SetReq(r, IF ~LimiterAdmits(limiter') THEN Answer(rq, 429)
                     ELSE IF name = "" \/ email = "" \/ password = "" THEN Answer(rq, 400)
                     ELSE IF TooShort(password) THEN Answer(rq, 400)
                     ELSE Goto(rq, "find"))
    /\ UNCHANGED <<backend, redisOn, now, ticks, users, refreshTokens, redisStore, issued,
                   hist, streakVars, appVars>>
    /\ quota' = quota - 1

\* user.findUnique({ email }) returns: 409 when the address is taken, else
\* bcrypt.hash and the awaited create.
RegisterFind(r, fault) ==
    /\ At(r, "register", "find")
    /\ SetReq(r, IF fault THEN Answer(req[r], 500)
                 ELSE IF users[req[r].email] # NoUser THEN Answer(req[r], 409)
                 ELSE Goto(req[r], "create"))
    /\ UNCHANGED <<backend, redisOn, now, ticks, users, refreshTokens, redisStore, issued,
                   limiter, quota, hist, streakVars, appVars>>

\* Database-backed: $transaction(user.create, profile.create) commits both
\* rows, or throws and rolls both back (a fault in either create or in the
\* commit, or the unique e-mail of a concurrent registration); then
\* generateTokens and the awaited storeRefreshToken.
DbRegisterTx(r, fault) ==
    /\ backend = "db"
    /\ At(r, "register", "create")
    /\ IF fault \/ users[req[r].email] # NoUser
       THEN /\ SetReq(r, Answer(req[r], 500))
            /\ UNCHANGED <<users, profiles>>
       ELSE /\ users' = [users EXCEPT ![req[r].email] = Hash(req[r].password)]
            /\ profiles' = profiles \cup {req[r].email}
            /\ SetReq(r, [Goto(req[r], "store") EXCEPT
                              !.newTok = generateTokens(req[r].email).refreshToken])
    /\ UNCHANGED <<backend, redisOn, now, ticks, refreshTokens, redisStore, issued, limiter,
                   quota, hist, streakVars, healthVars, enrollVars, gateVars, trackVars, shutVars, seedVars, achVars>>

\* Database-backed storeRefreshToken: refreshToken.create inserts the row, or
\* throws (a fault, or the unique token column); then the answer.  Shared by
\* register (201), login (200) and refresh (200); `thrown` is the catch
\* block's status.
DbStoreAndAnswer(r, fault, ok, thrown) ==
    IF fault \/ RowsOfToken(req[r].newTok) # {}
    THEN /\ SetReq(r, Answer(req[r], thrown))
         /\ UNCHANGED <<refreshTokens, issued, hist>>
    ELSE /\ refreshTokens' = refreshTokens \cup {NewRow(req[r].newTok.uid, req[r].newTok)}
         /\ hist' = Rotated(req[r])
         /\ issued' = issued \cup {[uid |-> req[r].newTok.uid, iat |-> req[r].newTok.iat]}
         /\ SetReq(r, Answer(req[r], ok))

DbRegisterStore(r, fault) ==
    /\ backend = "db"
    /\ At(r, "register", "store")
    /\ DbStoreAndAnswer(r, fault, 201, 500)
    /\ UNCHANGED <<backend, redisOn, now, ticks, users, redisStore, limiter, quota, streakVars, appVars>>

(***************************************************************************)
(* POST /auth/login                                                        *)
(***************************************************************************)
\* authLimiter, then the body validation, up to the awaited user.findUnique.
LoginStart(r, email, password) ==
    /\ FreeSlot(r)
    /\ quota > 0
    /\ limiter' = LimiterHit
    /\ LET rq == [IdleReq EXCEPT !.op = "login", !.email = email, !.password = password]
       IN  SetReq(r, IF ~LimiterAdmits(limiter') THEN Answer(rq, 429)
                     ELSE IF email = "" \/ password = "" THEN Answer(rq, 400)
                     ELSE Goto(rq, "find"))
    /\ UNCHANGED <<backend, redisOn, now, ticks, users, refreshTokens, redisStore, issued,
                   hist, streakVars, appVars>>
    /\ quota' = quota - 1

\* Database-backed: findUnique returns; 401 for an unknown user or a wrong
\* password, else the awaited user.update({ lastLogin }).
DbLoginFind(r, fault) ==
    /\ backend = "db"
    /\ At(r, "login", "find")
    /\ SetReq(r, IF fault THEN Answer(req[r], 500)
                 ELSE IF users[req[r].email] = NoUser THEN Answer(req[r], 401)
                 ELSE IF ~Compare(req[r].password, users[req[r].email]) THEN Answer(req[r], 401)
                 ELSE Goto(req[r], "update"))
    /\ UNCHANGED <<backend, redisOn, now, ticks, users, refreshTokens, redisStore, issued,
                   limiter, quota, hist, streakVars, appVars>>

\* Database-backed: the lastLogin update returns (lastLogin itself is not
\* modelled), then generateTokens and the awaited storeRefreshToken.
DbLoginUpdate(r, fault) ==
    /\ backend = "db"
    /\ At(r, "login", "update")
    /\ SetReq(r, IF fault THEN Answer(req[r], 500)
                 ELSE [Goto(req[r], "store") EXCEPT
                           !.newTok = generateTokens(req[r].email).refreshToken])
    /\ UNCHANGED <<backend, redisOn, now, ticks, users, refreshTokens, redisStore, issued,
                   limiter, quota, hist, streakVars, appVars>>

DbLoginStore(r, fault) ==
    /\ backend = "db"
    /\ At(r, "login", "store")
    /\ DbStoreAndAnswer(r, fault, 200, 500)
    /\ UNCHANGED <<backend, redisOn, now, ticks, users, redisStore, limiter, quota, streakVars, appVars>>

(***************************************************************************)
(* POST /auth/logout                                                       *)
(***************************************************************************)
\* Database-backed: with a refreshToken in the body the handler awaits
\* deleteRefreshToken, else it answers at once.
DbLogoutStart(r, token) ==
    /\ backend = "db"
    /\ FreeSlot(r)
    /\ quota > 0
    /\ LET rq == [IdleReq EXCEPT !.op = "logout", !.token = token]
       IN  SetReq(r, IF token = NoToken THEN Answer(rq, 200) ELSE Goto(rq, "delete"))
    /\ UNCHANGED <<backend, redisOn, now, ticks, users, refreshTokens, redisStore, issued,
                   limiter, hist, streakVars, appVars>>
    /\ quota' = quota - 1

\* refreshToken.deleteMany({ where: { token } }); the catch block answers 200 too.
DbLogoutDelete(r, fault) ==
    /\ backend = "db"
    /\ At(r, "logout", "delete")
    /\ refreshTokens' = IF fault THEN refreshTokens
                        ELSE refreshTokens \ RowsOfToken(req[r].token)
    /\ SetReq(r, Answer(req[r], 200))
    /\ hist' = LoggedOut(req[r].token)
    /\ UNCHANGED <<backend, redisOn, now, ticks, users, redisStore, issued, limiter,
                   quota, streakVars, appVars>>

(***************************************************************************)
(* POST /auth/refresh                                                      *)
(***************************************************************************)
\* Database-backed: 400 without a token; jwt.verify throws into the catch
\* block (401); else the awaited refreshToken.findUnique.
DbRefreshStart(r, token) ==
    /\ backend = "db"
    /\ FreeSlot(r)
    /\ quota > 0
    /\ LET rq == [IdleReq EXCEPT !.op = "refresh", !.token = token, !.replay = Replay(token)]
       IN  SetReq(r, IF token = NoToken THEN Answer(rq, 400)
                     ELSE IF ~VerifiesRefresh(token) THEN Answer(rq, 401)
                     ELSE Goto(rq, "findToken"))
    /\ UNCHANGED <<backend, redisOn, now, ticks, users, refreshTokens, redisStore, issued,
                   limiter, hist, streakVars, appVars>>
    /\ quota' = quota - 1

\* findUnique({ token }) returns: 401 unless the row exists and is unexpired,
\* else the awaited user.findUnique.
DbRefreshFindToken(r, fault) ==
    /\ backend = "db"
    /\ At(r, "refresh", "findToken")
    /\ SetReq(r, IF fault THEN Answer(req[r], 401)
                 ELSE IF StoredInvalid(req[r].token) THEN Answer(req[r], 401)
                 ELSE Goto(req[r], "findUser"))
    /\ UNCHANGED <<backend, redisOn, now, ticks, users, refreshTokens, redisStore, issued,
                   limiter, quota, hist, streakVars, appVars>>

\* user.findUnique({ id: decoded.userId }) returns: 401 without the user, else
\* the awaited deleteRefreshToken.
DbRefreshFindUser(r, fault) ==
    /\ backend = "db"
    /\ At(r, "refresh", "findUser")
    /\ SetReq(r, IF fault THEN Answer(req[r], 401)
                 ELSE IF users[req[r].token.uid] = NoUser THEN Answer(req[r], 401)
                 ELSE Goto(req[r], "delete"))
    /\ UNCHANGED <<backend, redisOn, now, ticks, users, refreshTokens, redisStore, issued,
                   limiter, quota, hist, streakVars, appVars>>

\* deleteRefreshToken(refreshToken) takes effect, then generateTokens and the
\* awaited storeRefreshToken.
DbRefreshDelete(r, fault) ==
    /\ backend = "db"
    /\ At(r, "refresh", "delete")
    /\ IF fault
       THEN /\ SetReq(r, Answer(req[r], 401))
            /\ UNCHANGED refreshTokens
       ELSE /\ refreshTokens' = refreshTokens \ RowsOfToken(req[r].token)
            /\ SetReq(r, [Goto(req[r], "store") EXCEPT
                              !.newTok = generateTokens(req[r].token.uid).refreshToken])
    /\ UNCHANGED <<backend, redisOn, now, ticks, users, redisStore, issued, limiter,
                   quota, hist, streakVars, appVars>>

DbRefreshStore(r, fault) ==
    /\ backend = "db"
    /\ At(r, "refresh", "store")
    /\ DbStoreAndAnswer(r, fault, 200, 401)
    /\ UNCHANGED <<backend, redisOn, now, ticks, users, redisStore, limiter, quota, streakVars, appVars>>

(***************************************************************************)
(* POST /auth/change-password                                              *)
(***************************************************************************)
\* Database-backed: the authenticate middleware: 401 without a Bearer header
\* or when jwt.verify throws, else the awaited user.findUnique.
DbChangePasswordStart(r, access, currentPassword, newPassword) ==
    /\ backend = "db"
    /\ FreeSlot(r)
    /\ quota > 0
    /\ LET rq == [IdleReq EXCEPT !.op = "changePassword", !.token = access,
                                 !.password = currentPassword, !.newPassword = newPassword]
       IN  SetReq(r, IF access = NoToken THEN Answer(rq, 401)
                     ELSE IF ~VerifiesAccess(access) THEN Answer(rq, 401)
                     ELSE Goto(rq, "authenticate"))
    /\ UNCHANGED <<backend, redisOn, now, ticks, users, refreshTokens, redisStore, issued,
                   limiter, hist, streakVars, appVars>>
    /\ quota' = quota - 1

\* authenticate's findUnique returns (401 without the user; its catch block
\* answers 401 too), then the handler's body validation up to its own awaited
\* user.findUnique.
DbChangePasswordAuth(r, fault) ==
    /\ backend = "db"
    /\ At(r, "changePassword", "authenticate")
    /\ SetReq(r, IF fault THEN Answer(req[r], 401)
                 ELSE IF users[req[r].token.uid] = NoUser THEN Answer(req[r], 401)
                 ELSE IF req[r].password = "" \/ req[r].newPassword = "" THEN Answer(req[r], 400)
                 ELSE IF TooShort(req[r].newPassword) THEN Answer(req[r], 400)
                 ELSE Goto(req[r], "find"))
    /\ UNCHANGED <<backend, redisOn, now, ticks, users, refreshTokens, redisStore, issued,
                   limiter, quota, hist, streakVars, appVars>>

\* The handler's findUnique returns: 404 without the user, 401 when
\* bcrypt.compare fails, else bcrypt.hash and the awaited $transaction.
DbChangePasswordFind(r, fault) ==
    /\ backend = "db"
    /\ At(r, "changePassword", "find")
    /\ SetReq(r, IF fault THEN Answer(req[r], 500)
                 ELSE IF users[req[r].token.uid] = NoUser THEN Answer(req[r], 404)
                 ELSE IF ~Compare(req[r].password, users[req[r].token.uid])
                      THEN Answer(req[r], 401)
                 ELSE Goto(req[r], "update"))
    /\ UNCHANGED <<backend, redisOn, now, ticks, users, refreshTokens, redisStore, issued,
                   limiter, quota, hist, streakVars, appVars>>

\* $transaction([user.update({ password }), refreshToken.deleteMany({ userId })])
\* commits as one, or throws and changes nothing.
DbChangePasswordTx(r, fault) ==
    /\ backend = "db"
    /\ At(r, "changePassword", "update")
    /\ IF fault
       THEN /\ SetReq(r, Answer(req[r], 500))
            /\ UNCHANGED <<users, refreshTokens, hist>>
       ELSE /\ users' = [users EXCEPT ![req[r].token.uid] = Hash(req[r].newPassword)]
            /\ refreshTokens' = { row \in refreshTokens : row.userId # req[r].token.uid }
            /\ hist' = PasswordChanged(req[r].token.uid)
            /\ SetReq(r, Answer(req[r], 200))
    /\ UNCHANGED <<backend, redisOn, now, ticks, redisStore, issued, limiter, quota, streakVars, appVars>>

(***************************************************************************)
(* The Redis-backed router (auth.routes.ts)                                *)
(***************************************************************************)
\* After generateTokens: storeRefreshToken awaits redis.set when redis is
\* configured and returns at once when it is not, and then the answer.
RedisIssue(r, rq, tok, ok) ==
    IF redisOn
    THEN /\ SetReq(r, [Goto(rq, "store") EXCEPT !.newTok = tok])
         /\ UNCHANGED <<issued, hist>>
    ELSE /\ SetReq(r, [Answer(rq, ok) EXCEPT !.newTok = tok])
         /\ hist' = Rotated(rq)
         /\ issued' = issued \cup {[uid |-> tok.uid, iat |-> tok.iat]}

\* user.create returns (or throws: a fault, or the unique e-mail of a
\* concurrent registration), then generateTokens and storeRefreshToken.
RedisRegisterCreate(r, fault) ==
    /\ backend = "redis"
    /\ At(r, "register", "create")
    /\ IF fault \/ users[req[r].email] # NoUser
       THEN /\ SetReq(r, Answer(req[r], 500))
            /\ UNCHANGED <<users, issued, hist>>
       ELSE /\ users' = [users EXCEPT ![req[r].email] = Hash(req[r].password)]
            /\ RedisIssue(r, req[r], generateTokens(req[r].email).refreshToken, 201)
    /\ UNCHANGED <<backend, redisOn, now, ticks, refreshTokens, redisStore, limiter,
                   quota, streakVars, appVars>>

\* redis.set takes effect (or throws), then the answer; `thrown` is the catch
\* block's status.
RedisStoreAndAnswer(r, fault, ok, thrown) ==
    IF fault
    THEN /\ SetReq(r, Answer(req[r], thrown))
         /\ UNCHANGED <<redisStore, issued, hist>>
    ELSE /\ redisStore' = RedisSet(req[r].newTok.uid, req[r].newTok)
         /\ hist' = Rotated(req[r])
         /\ issued' = issued \cup {[uid |-> req[r].newTok.uid, iat |-> req[r].newTok.iat]}
         /\ SetReq(r, Answer(req[r], ok))

RedisRegisterStore(r, fault) ==
    /\ backend = "redis"
    /\ At(r, "register", "store")
    /\ RedisStoreAndAnswer(r, fault, 201, 500)
    /\ UNCHANGED <<backend, redisOn, now, ticks, users, refreshTokens, limiter, quota, streakVars, appVars>>

\* findUnique returns; 401 for an unknown user or a wrong password, else
\* generateTokens and storeRefreshToken.
RedisLoginFind(r, fault) ==
    /\ backend = "redis"
    /\ At(r, "login", "find")
    /\ IF fault \/ users[req[r].email] = NoUser
             \/ ~Compare(req[r].password, users[req[r].email])
       THEN /\ SetReq(r, Answer(req[r], IF fault THEN 500 ELSE 401))
            /\ UNCHANGED <<issued, hist>>
       ELSE RedisIssue(r, req[r], generateTokens(req[r].email).refreshToken, 200)
    /\ UNCHANGED <<backend, redisOn, now, ticks, users, refreshTokens, redisStore, limiter,
                   quota, streakVars, appVars>>

RedisLoginStore(r, fault) ==
    /\ backend = "redis"
    /\ At(r, "login", "store")
    /\ RedisStoreAndAnswer(r, fault, 200, 500)
    /\ UNCHANGED <<backend, redisOn, now, ticks, users, refreshTokens, limiter, quota, streakVars, appVars>>

\* Logout: without a token, or when jwt.verify throws, 200 at once; else
\* invalidateRefreshToken(decoded.userId), which awaits redis.del when redis
\* is configured and does nothing when it is not.
RedisLogoutStart(r, token) ==
    /\ backend = "redis"
    /\ FreeSlot(r)
    /\ quota > 0
    /\ LET rq == [IdleReq EXCEPT !.op = "logout", !.token = token]
       IN  SetReq(r, IF token = NoToken \/ ~VerifiesRefresh(token) \/ ~redisOn
                     THEN Answer(rq, 200)
                     ELSE Goto(rq, "delete"))
    /\ hist' = IF redisOn THEN hist ELSE LoggedOut(token)
    /\ UNCHANGED <<backend, redisOn, now, ticks, users, refreshTokens, redisStore, issued,
                   limiter, streakVars, appVars>>
    /\ quota' = quota - 1

\* redis.del(`refresh:${decoded.userId}`); the catch block answers 200 too.
RedisLogoutDel(r, fault) ==
    /\ backend = "redis"
    /\ At(r, "logout", "delete")
    /\ redisStore' = IF fault THEN redisStore ELSE RedisDel(req[r].token.uid)
    /\ SetReq(r, Answer(req[r], 200))
    /\ hist' = LoggedOut(req[r].token)
    /\ UNCHANGED <<backend, redisOn, now, ticks, users, refreshTokens, issued, limiter,
                   quota, streakVars, appVars>>

\* Refresh: 400 without a token; 401 when jwt.verify throws; then redis.get
\* if redis is configured, else straight to user.findUnique.
RedisRefreshStart(r, token) ==
    /\ backend = "redis"
    /\ FreeSlot(r)
    /\ quota > 0
    /\ LET rq == [IdleReq EXCEPT !.op = "refresh", !.token = token, !.replay = Replay(token)]
       IN  SetReq(r, IF token = NoToken THEN Answer(rq, 400)
                     ELSE IF ~VerifiesRefresh(token) THEN Answer(rq, 401)
                     ELSE IF redisOn THEN Goto(rq, "findToken")
                     ELSE Goto(rq, "findUser"))
    /\ UNCHANGED <<backend, redisOn, now, ticks, users, refreshTokens, redisStore, issued,
                   limiter, hist, streakVars, appVars>>
    /\ quota' = quota - 1

\* redis.get returns: 401 when stored !== refreshToken, else user.findUnique.
RedisRefreshGet(r, fault) ==
    /\ backend = "redis"
    /\ At(r, "refresh", "findToken")
    /\ SetReq(r, IF fault THEN Answer(req[r], 401)
                 ELSE IF RedisGet(req[r].token.uid) # {req[r].token} THEN Answer(req[r], 401)
                 ELSE Goto(req[r], "findUser"))
    /\ UNCHANGED <<backend, redisOn, now, ticks, users, refreshTokens, redisStore, issued,
                   limiter, quota, hist, streakVars, appVars>>

\* user.findUnique returns: 401 without the user, else generateTokens and
\* storeRefreshToken (the old token is not deleted: redis.set overwrites the key).
RedisRefreshFindUser(r, fault) ==
    /\ backend = "redis"
    /\ At(r, "refresh", "findUser")
    /\ IF fault \/ users[req[r].token.uid] = NoUser
       THEN /\ SetReq(r, Answer(req[r], 401))
            /\ UNCHANGED <<issued, hist>>
       ELSE RedisIssue(r, req[r], generateTokens(req[r].token.uid).refreshToken, 200)
    /\ UNCHANGED <<backend, redisOn, now, ticks, users, refreshTokens, redisStore, limiter,
                   quota, streakVars, appVars>>

RedisRefreshStore(r, fault) ==
    /\ backend = "redis"
    /\ At(r, "refresh", "store")
    /\ RedisStoreAndAnswer(r, fault, 200, 401)
    /\ UNCHANGED <<backend, redisOn, now, ticks, users, refreshTokens, limiter, quota, streakVars, appVars>>

\* Change password: 401 without a Bearer header or when jwt.verify throws; 400
\* for a missing or short password; else the awaited user.findUnique.
RedisChangePasswordStart(r, access, currentPassword, newPassword) ==
    /\ backend = "redis"
    /\ FreeSlot(r)
    /\ quota > 0
    /\ LET rq == [IdleReq EXCEPT !.op = "changePassword", !.token = access,
                                 !.password = currentPassword, !.newPassword = newPassword]
       IN  SetReq(r, IF access = NoToken THEN Answer(rq, 401)
                     ELSE IF ~VerifiesAccess(access) THEN Answer(rq, 401)
                     ELSE IF currentPassword = "" \/ newPassword = "" THEN Answer(rq, 400)
                     ELSE IF TooShort(newPassword) THEN Answer(rq, 400)
                     ELSE Goto(rq, "find"))
    /\ UNCHANGED <<backend, redisOn, now, ticks, users, refreshTokens, redisStore, issued,
                   limiter, hist, streakVars, appVars>>
    /\ quota' = quota - 1

\* findUnique returns: 404 without the user, 401 when bcrypt.compare fails
\* (and from the catch block), else bcrypt.hash and the awaited user.update.
RedisChangePasswordFind(r, fault) ==
    /\ backend = "redis"
    /\ At(r, "changePassword", "find")
    /\ SetReq(r, IF fault THEN Answer(req[r], 401)
                 ELSE IF users[req[r].token.uid] = NoUser THEN Answer(req[r], 404)
                 ELSE IF ~Compare(req[r].password, users[req[r].token.uid])
                      THEN Answer(req[r], 401)
                 ELSE Goto(req[r], "update"))
    /\ UNCHANGED <<backend, redisOn, now, ticks, users, refreshTokens, redisStore, issued,
                   limiter, quota, hist, streakVars, appVars>>

\* user.update({ password }) takes effect, then invalidateRefreshToken: the
\* awaited redis.del when redis is configured, nothing when it is not.
RedisChangePasswordUpdate(r, fault) ==
    /\ backend = "redis"
    /\ At(r, "changePassword", "update")
    /\ IF fault
       THEN /\ SetReq(r, Answer(req[r], 401))
            /\ UNCHANGED <<users, hist>>
       ELSE /\ users' = [users EXCEPT ![req[r].token.uid] = Hash(req[r].newPassword)]
            /\ hist' = PasswordChanged(req[r].token.uid)
            /\ SetReq(r, IF redisOn THEN Goto(req[r], "invalidate") ELSE Answer(req[r], 200))
    /\ UNCHANGED <<backend, redisOn, now, ticks, refreshTokens, redisStore, issued, limiter,
                   quota, streakVars, appVars>>

\* redis.del(`refresh:${decoded.userId}`) takes effect, then 200.
RedisChangePasswordInvalidate(r, fault) ==
    /\ backend = "redis"
    /\ At(r, "changePassword", "invalidate")
    /\ redisStore' = IF fault THEN redisStore ELSE RedisDel(req[r].token.uid)
    /\ SetReq(r, Answer(req[r], IF fault THEN 401 ELSE 200))
    /\ UNCHANGED <<backend, redisOn, now, ticks, users, refreshTokens, issued, limiter,
                   quota, hist, streakVars, appVars>>

(***************************************************************************)
(* The authentication specification                                        *)
(***************************************************************************)
\* Clock advances tried: one second, and the lifetime of a refresh token
\* (which outlasts an access token).
AuthJumps == {1, RefreshExpiresSec}

InitAuthVars ==
    /\ now = 0
    /\ ticks = 0
    /\ users = [u \in UserIds |-> NoUser]
    /\ refreshTokens = {}
    /\ redisStore = [u \in UserIds |-> {}]
    /\ issued = {}
    /\ limiter = [hits |-> 0, resetTime |-> 0]
    /\ req = [r \in Slots |-> IdleReq]
    /\ hist = [rotated |-> {}, loggedOut |-> {}, stale |-> {}]

InitStreakVars ==
    /\ workoutLogs = {}
    /\ streakResp = {}

\* A GET /health request: the outcomes of its two checks and its answer.
IdleHealth == [pc |-> "idle", db |-> "notrun", ping |-> "notrun", status |-> 0,
               body |-> "", redis |-> ""]

InitHealthVars ==
    /\ server = "part_002"
    /\ hreq = [r \in Slots |-> IdleHealth]

\* undefined (a field missing from the body) and null (completedAt not set).
Undef == 0 - 1

\* A /programs request: enroll or progress update.  enrolled is history:
\* whether the pair was enrolled when the enroll request arrived.
IdleEnroll == [op |-> None, pc |-> "idle", status |-> 0, userId |-> None, programId |-> None,
               enrollmentId |-> 0, currentWeek |-> Undef, currentDay |-> Undef,
               completedDays |-> Undef, seenDays |-> Undef, seenProgram |-> None,
               enrolled |-> FALSE]

InitEnrollVars ==
    /\ enrollKey = TRUE
    /\ enrollments = {}
    /\ ereq = [r \in Slots |-> IdleEnroll]

\* A request to a protected router: its Authorization header (scheme and
\* token), the time it arrived, and req.user once authenticate set it.
IdleGate == [pc |-> "idle", router |-> None, scheme |-> None, token |-> NoToken, at |-> 0,
             user |-> None, status |-> 0]

InitGateVars ==
    /\ preq = [r \in Slots |-> IdleGate]
    /\ handled = {}

InitProfileVars ==
    /\ profiles = {}

\* A POST /progress request: the created log's id (0 before the create),
\* `today` of updateStreak, the values it computed, and how updateStreak
\* ended.
IdleLog == [pc |-> "idle", userId |-> None, status |-> 0, log |-> 0, today |-> 0,
            newCurrent |-> 0, newLongest |-> 0, streak |-> "notrun"]

InitTrackVars ==
    /\ today = 0
    /\ dayLogs = {}
    /\ streaks = [u \in UserIds |-> {}]
    /\ lreq = [r \in Slots |-> IdleLog]
    /\ held = [u \in UserIds |-> {}]
    /\ missed = {}

\* The exit code of a process that has not exited.
Running == 0 - 1
\* A gracefulShutdown call that has not been made: no callback registered, no
\* timer set.
IdleTask == [pc |-> "none", timer |-> FALSE]

InitShutVars ==
    /\ exitCode = Running
    /\ connections = 0
    /\ tasks = [i \in 1..MaxSignals |-> IdleTask]
    /\ events = <<>>

\* A GET /seed request: its ?secret= value as a set ({} when missing) and
\* its answer.
IdleSeed == [pc |-> "idle", secret |-> {}, status |-> 0]

InitSeedVars ==
    /\ seedSecret = {}
    /\ seeded = {}
    /\ sreq = [r \in Slots |-> IdleSeed]

InitAchVars ==
    /\ achResp = {}

InitAppVars ==
    /\ InitHealthVars
    /\ InitEnrollVars
    /\ InitGateVars
    /\ InitProfileVars
    /\ InitTrackVars
    /\ InitShutVars
    /\ InitSeedVars
    /\ InitAchVars

\* The deployments: the database-backed router, or the Redis-backed router
\* with REDIS_URL set or unset.
InitAuth ==
    /\ \E d \in {<<"db", FALSE>>, <<"redis", TRUE>>, <<"redis", FALSE>>} :
           backend = d[1] /\ redisOn = d[2]
    /\ quota = MaxRequests
    /\ InitAuthVars
    /\ InitStreakVars
    /\ InitAppVars

\* A client starts a request.
StartAuth ==
    \/ \E r \in Slots, b \in RegisterBodies : RegisterStart(r, b.name, b.email, b.password)
    \/ \E r \in Slots, b \in LoginBodies : LoginStart(r, b.email, b.password)
    \/ \E r \in Slots, token \in PresentableRefresh : DbLogoutStart(r, token)
    \/ \E r \in Slots, token \in PresentableRefresh : DbRefreshStart(r, token)
    \/ \E r \in Slots, access \in PresentableAccess, b \in ChangePasswordBodies :
           DbChangePasswordStart(r, access, b.currentPassword, b.newPassword)
    \/ \E r \in Slots, token \in PresentableRefresh : RedisLogoutStart(r, token)
    \/ \E r \in Slots, token \in PresentableRefresh : RedisRefreshStart(r, token)
    \/ \E r \in Slots, access \in PresentableAccess, b \in ChangePasswordBodies :
           RedisChangePasswordStart(r, access, b.currentPassword, b.newPassword)

\* An awaited operation of a request in flight returns.
StepAuth ==
    \/ \E r \in Slots, fault \in Faults : RegisterFind(r, fault)
    \/ \E r \in Slots, fault \in Faults : DbRegisterTx(r, fault)
    \/ \E r \in Slots, fault \in Faults : DbRegisterStore(r, fault)
    \/ \E r \in Slots, fault \in Faults : DbLoginFind(r, fault)
    \/ \E r \in Slots, fault \in Faults : DbLoginUpdate(r, fault)
    \/ \E r \in Slots, fault \in Faults : DbLoginStore(r, fault)
    \/ \E r \in Slots, fault \in Faults : DbLogoutDelete(r, fault)
    \/ \E r \in Slots, fault \in Faults : DbRefreshFindToken(r, fault)
    \/ \E r \in Slots, fault \in Faults : DbRefreshFindUser(r, fault)
    \/ \E r \in Slots, fault \in Faults : DbRefreshDelete(r, fault)
    \/ \E r \in Slots, fault \in Faults : DbRefreshStore(r, fault)
    \/ \E r \in Slots, fault \in Faults : DbChangePasswordAuth(r, fault)
    \/ \E r \in Slots, fault \in Faults : DbChangePasswordFind(r, fault)
    \/ \E r \in Slots, fault \in Faults : DbChangePasswordTx(r, fault)
    \/ \E r \in Slots, fault \in Faults : RedisRegisterCreate(r, fault)
    \/ \E r \in Slots, fault \in Faults : RedisRegisterStore(r, fault)
    \/ \E r \in Slots, fault \in Faults : RedisLoginFind(r, fault)
    \/ \E r \in Slots, fault \in Faults : RedisLoginStore(r, fault)
    \/ \E r \in Slots, fault \in Faults : RedisLogoutDel(r, fault)
    \/ \E r \in Slots, fault \in Faults : RedisRefreshGet(r, fault)
    \/ \E r \in Slots, fault \in Faults : RedisRefreshFindUser(r, fault)
    \/ \E r \in Slots, fault \in Faults : RedisRefreshStore(r, fault)
    \/ \E r \in Slots, fault \in Faults : RedisChangePasswordFind(r, fault)
    \/ \E r \in Slots, fault \in Faults : RedisChangePasswordUpdate(r, fault)
    \/ \E r \in Slots, fault \in Faults : RedisChangePasswordInvalidate(r, fault)

NextAuth ==
    \/ \E d \in AuthJumps : Tick(d)
    \/ StartAuth
    \/ StepAuth

SpecAuth == InitAuth /\ [][NextAuth]_vars

(***************************************************************************)
(* Properties of the authentication routes                                 *)
(***************************************************************************)
\* The step in which slot r takes a new request.
Arrives(r) == FreeSlot(r) /\ quota' = quota - 1

\* A step of the request in slot r.
StepOf(r) == req'[r] # req[r]

AnsweredRefresh(r) == req[r].op = "refresh" /\ req[r].pc = "done"

\* C1: rotation is atomic.  A refresh request of the database-backed router
\* that has deleted the presented token (it has generated the successor)
\* and has been answered was answered 200 with the successor stored; and two
\* refresh requests that overlap in time, present the same token and are
\* both answered 200 do not leave two different accepted successors.
C1_RotationAtomic ==
    /\ \A r \in Slots :
           (backend = "db" /\ AnsweredRefresh(r) /\ req[r].newTok # NoToken)
               => req[r].status = 200
    /\ \A r1, r2 \in Slots :
           (/\ r1 # r2
            /\ AnsweredRefresh(r1) /\ req[r1].status = 200
            /\ AnsweredRefresh(r2) /\ req[r2].status = 200
            /\ req[r1].token = req[r2].token
            /\ req[r1].newTok # req[r2].newTok)
               => ~(Accepted(req[r1].newTok) /\ Accepted(req[r2].newTok))

\* The token has a row in the RefreshToken table that has not expired.
Persisted(t) == \E row \in refreshTokens : row.token = t /\ row.expiresAt >= now

\* The handler's awaited operations, in order.
RefreshOrder ==
    {<<"findToken", "findUser">>, <<"findUser", "delete">>, <<"delete", "store">>}

\* C2: the database-backed POST /auth/refresh verifies the signature, then
\* checks the stored token, then deletes the old token, then stores the new
\* one and answers 200; it deletes or stores no refresh token before both
\* checks have passed; and a request that fails either check is answered 401
\* with the RefreshToken table unchanged.
C2_RefreshOrder ==
    [][\A r \in Slots : backend = "db" =>
          /\ (Arrives(r) /\ req'[r].op = "refresh") =>
                 /\ refreshTokens' = refreshTokens
                 /\ req'[r].pc \in {"done", "findToken"}
                 /\ req'[r].pc = "findToken" <=> VerifiesRefresh(req'[r].token)
                 /\ (req'[r].token # NoToken /\ ~VerifiesRefresh(req'[r].token))
                        => req'[r].status = 401
          /\ (req[r].op = "refresh" /\ req[r].pc # "done" /\ StepOf(r)) =>
                 /\ req'[r].pc = "done" \/ <<req[r].pc, req'[r].pc>> \in RefreshOrder
                 /\ req[r].pc \in {"findToken", "findUser"} => refreshTokens' = refreshTokens
                 /\ (req[r].pc = "findToken" /\ ~Persisted(req[r].token))
                        => (req'[r].pc = "done" /\ req'[r].status = 401)
                 /\ req[r].pc = "delete" =>
                        refreshTokens' \in {refreshTokens, refreshTokens \ RowsOfToken(req[r].token)}
                 /\ req[r].pc = "store" =>
                        refreshTokens' \in {refreshTokens,
                                            refreshTokens \cup {NewRow(req[r].token.uid, req[r].newTok)}}
                 /\ req'[r].status = 200 <=>
                        (req[r].pc = "store" /\ refreshTokens' # refreshTokens)
                 /\ req'[r].status \in {0, 200, 401}]_vars

\* A refresh was answered 200 after deleting the presented token and storing
\* a different successor.
C2_Witness ==
    \E r \in Slots :
        /\ backend = "db" /\ AnsweredRefresh(r) /\ req[r].status = 200
        /\ req[r].newTok # req[r].token
        /\ RowsOfToken(req[r].token) = {}
        /\ RowsOfToken(req[r].newTok) # {}

\* C3: refresh tokens are single-use: a refresh request presenting a token
\* with which an earlier refresh request succeeded is answered 401.
C3_SingleUse ==
    \A r \in Slots : (AnsweredRefresh(r) /\ "rotated" \in req[r].replay) => req[r].status = 401

\* C4: a refresh request presenting a token that an earlier logout presented
\* while it was valid is answered 401 and issues no tokens.
C4_LogoutInvalidates ==
    \A r \in Slots :
        (req[r].op = "refresh" /\ "loggedOut" \in req[r].replay)
            => /\ req[r].newTok = NoToken
               /\ req[r].pc = "done" => req[r].status = 401

\* C5: in no state is a refresh token that was issued to a user before a
\* successful password change of that user still accepted by refresh.
C5_ChangePasswordInvalidatesAll ==
    \A t \in hist.stale : ~Accepted(t)

IssuedRefresh == { Token("refresh", p.uid, p.iat) : p \in issued }

\* C6: an issued refresh token stops being accepted only by expiring, by a
\* refresh or a logout that presents it, or by a password change of its
\* user; in particular not by a login, a registration, or a logout or a
\* refresh presenting another token.
C6_SessionsPerDevice ==
    [][\A t \in IssuedRefresh :
          (Accepted(t) /\ ~Accepted(t)') =>
              \/ ~VerifiesRefresh(t)'
              \/ \E r \in Slots :
                     /\ StepOf(r)
                     /\ \/ req'[r].op \in {"refresh", "logout"} /\ req'[r].token = t
                        \/ req'[r].op = "changePassword" /\ req'[r].token.uid = t.uid]_vars

\* A register request with a short password, or a change-password request
\* with a short newPassword.
ShortPassword(rq) ==
    \/ rq.op = "register" /\ Len(rq.password) < MinPasswordLen
    \/ rq.op = "changePassword" /\ Len(rq.newPassword) < MinPasswordLen

\* C10 as stated: every register or change-password request with a password
\* shorter than 8 characters is answered 400.
C10_ShortPasswordAnswered400 ==
    \A r \in Slots : (ShortPassword(req[r]) /\ req[r].pc = "done") => req[r].status = 400

\* C10: no stored hash is of a password shorter than 8 characters; a
\* register or change-password request with such a password creates no
\* user, changes no hash and stores or deletes no refresh token; it is
\* answered 400, or 429 by the rate limiter (register) or 401 by the
\* authentication (change-password) before its body is validated.
C10_ShortPasswordRejected ==
    /\ [](\A u \in UserIds : users[u] # NoUser => Len(users[u][2]) >= MinPasswordLen)
    /\ [][\A r \in Slots : (ShortPassword(req'[r]) /\ StepOf(r)) =>
             /\ UNCHANGED <<users, refreshTokens, redisStore, issued>>
             /\ req'[r].pc = "done" \/ (req'[r].op = "changePassword" /\ req'[r].pc = "authenticate")
             /\ req'[r].pc = "done" =>
                    req'[r].status \in (IF req'[r].op = "register" THEN {400, 429} ELSE {400, 401})
             /\ (req'[r].op = "register" /\ LimiterAdmits(limiter')) => req'[r].status = 400]_vars

\* An authenticated change-password request with a short newPassword was
\* answered 400 while its user holds a stored refresh token or redis key.
C10_Witness ==
    \E r \in Slots :
        /\ req[r].op = "changePassword" /\ req[r].pc = "done" /\ req[r].status = 400
        /\ Len(req[r].newPassword) < MinPasswordLen
        /\ users[req[r].token.uid] # NoUser
        /\ issued # {}

(***************************************************************************)
(* The rate-limiter specification: many register and login requests of one *)
(* client, all of which fail behind the limiter (no user is ever           *)
(* registered), in every deployment.                                       *)
(***************************************************************************)
MaxRateRequests == 12

\* README, Rate Limiting: "Auth endpoints: 5 attempts per 15 minutes".
ReadmeAuthMax == 5
ReadmeAuthWindowSec == 900

\* Clock advances tried: the README's window and the limiter's window.
RateJumps == {ReadmeAuthWindowSec, AuthWindowSec}

RateRegisterBodies == { b \in RegisterBodies : Len(b.password) < MinPasswordLen }
RateLoginBodies == { b \in LoginBodies : b.password = "password1" }

InitRate ==
    /\ \E d \in {<<"db", FALSE>>, <<"redis", TRUE>>, <<"redis", FALSE>>} :
           backend = d[1] /\ redisOn = d[2]
    /\ quota = MaxRateRequests
    /\ InitAuthVars
    /\ InitStreakVars
    /\ InitAppVars

NextRate ==
    \/ \E d \in RateJumps : Tick(d)
    \/ \E r \in Slots, b \in RateRegisterBodies : RegisterStart(r, b.name, b.email, b.password)
    \/ \E r \in Slots, b \in RateLoginBodies : LoginStart(r, b.email, b.password)
    \/ \E r \in Slots, fault \in Faults : DbLoginFind(r, fault)
    \/ \E r \in Slots, fault \in Faults : RedisLoginFind(r, fault)

SpecRate == InitRate /\ [][NextRate]_vars

(***************************************************************************)
(* Streak computation (GET /progress/streaks, computed from the logs)      *)
(***************************************************************************)
SecondsPerDay == 86400

\* Model bounds of the streak specification.
MaxDay == 3
MaxLogs == 4
MaxEnrollRequests == 4
MaxEnrollments == 2
MaxPlanDays == 2
MaxGateRequests == 3
MaxTrackDay == 2
MaxTrackRequests == 3

\* completedAt values a client can log: the first and the last second of
\* each calendar day 0..MaxDay (UTC).
LogTimes == { d * SecondsPerDay + o : d \in 0..MaxDay, o \in {0, SecondsPerDay - 1} }

\* l.completedAt.toISOString().split('T')[0]: the UTC calendar day of a
\* timestamp.  A day is named by its number since the epoch; the zero-padded
\* YYYY-MM-DD strings of the code sort in the order of these numbers.
IsoDay(ts) == ts \div SecondsPerDay

\* new Date(day).getTime(): UTC midnight of the day (in seconds).
DayTime(day) == day * SecondsPerDay

SetMax(S) == CHOOSE x \in S : \A y \in S : y <= x

RECURSIVE SortDesc(_)
\* [...new Set(...)].sort().reverse(): the distinct days, latest first.
SortDesc(S) == IF S = {} THEN <<>> ELSE <<SetMax(S)>> \o SortDesc(S \ {SetMax(S)})

Max2(a, b) == IF a >= b THEN a ELSE b

\* The rows findMany({ where: { userId } }) returns.
LogsOf(u) == { l \in workoutLogs : l.userId = u }

\* days: unique workout days, latest first.
StreakDays(logs) == SortDesc({ IsoDay(l.completedAt) : l \in logs })

\* diff >= 1 in place of diff === 1.
DiffAtLeastOne(prev, curr) == DayTime(prev) - DayTime(curr) >= SecondsPerDay

\* diff === 1 for days[i-1], days[i].
DiffIsOne(prev, curr) == DayTime(prev) - DayTime(curr) = SecondsPerDay

RECURSIVE StreakLoop(_, _, _, _, _)
\* The for loop of the handler; i is 1-based here.
StreakLoop(days, i, streak, longestStreak, currentStreak) ==
    IF i > Len(days)
    THEN [currentStreak |-> currentStreak, longestStreak |-> longestStreak,
          totalActiveDays |-> Len(days)]
    ELSE LET s == IF i = 1 THEN 1
                  ELSE IF DiffIsOne(days[i - 1], days[i]) THEN streak + 1 ELSE 1
             l == Max2(longestStreak, s)
             c == IF i = 1 THEN s ELSE currentStreak
         IN  StreakLoop(days, i + 1, s, l, c)

ComputeStreaks(logs) == StreakLoop(StreakDays(logs), 1, 0, 0, 0)

\* POST /progress (first version): one WorkoutLog row for the user.
LogWorkout(u, ts) ==
    /\ Cardinality(workoutLogs) < MaxLogs
    /\ workoutLogs' = workoutLogs \cup {[userId |-> u, completedAt |-> ts]}
    /\ UNCHANGED <<streakResp, authVars, appVars>>

\* GET /progress/streaks: read the user's logs, compute, answer 200.
GetStreaks(u) ==
    /\ LET logs == LogsOf(u)
       IN  streakResp' = {[userId |-> u, logs |-> logs, data |-> ComputeStreaks(logs)]}
    /\ UNCHANGED <<workoutLogs, authVars, appVars>>

RECURSIVE AchievementLoop(_, _, _)
\* The for loop of GET /progress/achievements (i is 1-based here): it counts
\* the days from the latest one back and breaks at the first gap.
AchievementLoop(days, i, streak) ==
    IF i > Len(days) THEN streak
    ELSE IF i = 1 THEN AchievementLoop(days, i + 1, 1)
    ELSE IF DiffIsOne(days[i - 1], days[i]) THEN AchievementLoop(days, i + 1, streak + 1)
    ELSE streak

AchievementStreak(logs) == AchievementLoop(StreakDays(logs), 1, 0)

\* The rule table of the handler: what each achievement looks at and the
\* least value that unlocks it.
AchievementRules ==
    {[id |-> "first_workout", of |-> "totalLogs", atLeast |-> 1],
     [id |-> "week_warrior", of |-> "streak", atLeast |-> 7],
     [id |-> "century_club", of |-> "totalLogs", atLeast |-> 100],
     [id |-> "consistent_10", of |-> "totalLogs", atLeast |-> 10],
     [id |-> "month_streak", of |-> "streak", atLeast |-> 30],
     [id |-> "half_century", of |-> "totalLogs", atLeast |-> 50]}

Unlocked(totalLogs, streak) ==
    { a.id : a \in { x \in AchievementRules :
                       IF x.of = "streak" THEN streak >= x.atLeast
                       ELSE totalLogs >= x.atLeast } }

\* GET /progress/achievements, up to its first await: workoutLog.count.
AchievementsCount(u) ==
    /\ \A a \in achResp : a.pc = "done"
    /\ achResp' = {[userId |-> u, pc |-> "findMany", totalLogs |-> Cardinality(LogsOf(u)),
                    logs |-> {}, streak |-> 0, unlocked |-> {}]}
    /\ UNCHANGED <<streakVars, authVars, healthVars, enrollVars, gateVars, profileVars,
                   trackVars, shutVars, seedVars>>

\* workoutLog.findMany returns: the streak, the rules, 200.
AchievementsFindMany(u) ==
    /\ \E a \in achResp :
        /\ a.pc = "findMany"
        /\ a.userId = u
        /\ LET logs == LogsOf(u)
               streak == AchievementStreak(logs)
           IN  achResp' = {[a EXCEPT !.pc = "done", !.logs = logs, !.streak = streak,
                                     !.unlocked = Unlocked(a.totalLogs, streak)]}
    /\ UNCHANGED <<streakVars, authVars, healthVars, enrollVars, gateVars, profileVars,
                   trackVars, shutVars, seedVars>>

InitStreak ==
    /\ backend = "db"
    /\ redisOn = FALSE
    /\ quota = 0
    /\ InitAuthVars
    /\ InitStreakVars
    /\ InitAppVars

NextStreak ==
    \/ \E u \in UserIds, ts \in LogTimes : LogWorkout(u, ts)
    \/ \E u \in UserIds : GetStreaks(u)
    \/ \E u \in UserIds : AchievementsCount(u)
    \/ \E u \in UserIds : AchievementsFindMany(u)

SpecStreak == InitStreak /\ [][NextStreak]_vars

(***************************************************************************)
(* Properties of the streak computation                                    *)
(***************************************************************************)
\* The distinct calendar days of a set of logs.
LoggedDays(logs) == { IsoDay(l.completedAt) : l \in logs }

\* The length of the run of consecutive days of D that ends at day d.
RunEndingAt(D, d) ==
    CHOOSE k \in 0..Cardinality(D) : (\A j \in 0..(k - 1) : (d - j) \in D) /\ (d - k) \notin D

LongestRun(D) == IF D = {} THEN 0 ELSE SetMax({ RunEndingAt(D, d) : d \in D })

\* C7: every answer of GET /progress/streaks has currentStreak equal to the
\* length of the run of consecutive logged days that ends at the user's most
\* recent logged day, and 0 when the user has no logs.
C7_CurrentStreakIsLatestRun ==
    \A a \in streakResp :
        a.data.currentStreak =
            IF a.logs = {} THEN 0
            ELSE RunEndingAt(LoggedDays(a.logs), SetMax(LoggedDays(a.logs)))

\* C8: every answer of GET /progress/streaks has longestStreak equal to the
\* longest run of consecutive days among the distinct logged days,
\* totalActiveDays equal to the number of distinct logged days, and
\* longestStreak >= currentStreak.
C8_LongestAndTotal ==
    \A a \in streakResp :
        /\ a.data.longestStreak = LongestRun(LoggedDays(a.logs))
        /\ a.data.totalActiveDays = Cardinality(LoggedDays(a.logs))
        /\ a.data.longestStreak >= a.data.currentStreak

\* An answer computed from logs with two logs on one day, a run of at least
\* two days and a gap.
C8_Witness ==
    \E a \in streakResp :
        /\ Cardinality(a.logs) > a.data.totalActiveDays
        /\ a.data.longestStreak >= 2
        /\ a.data.totalActiveDays > a.data.longestStreak

(***************************************************************************)
(* Properties of the rate limiter                                          *)
(***************************************************************************)
\* The step in which slot r takes a new register or login request.
AuthRequestArrives(r) ==
    /\ FreeSlot(r)
    /\ quota' = quota - 1
    /\ req'[r].op \in {"register", "login"}

\* The arrival time of the first request of the limiter's window.
WindowStart(l) == l.resetTime - AuthWindowSec

\* C9: a register or login request that arrives as the sixth or a later one
\* within 15 minutes of the first is answered 429 without reaching the
\* handler, so that at most 5 are processed in a 15-minute window.
C9_FivePerFifteenMinutes ==
    [][\A r \in Slots :
          (/\ AuthRequestArrives(r)
           /\ limiter'.hits > ReadmeAuthMax
           /\ now - WindowStart(limiter') < ReadmeAuthWindowSec)
          => (req'[r].pc = "done" /\ req'[r].status = 429)]_vars

(***************************************************************************)
(* GET /health (server.ts, unnamed/part_002, api/index.ts)                 *)
(***************************************************************************)
HealthServers == {"server.ts", "part_002", "api/index.ts"}

HealthFree(r) == hreq[r].pc \in {"idle", "done"}
HealthFreeSlot(r) == HealthFree(r) /\ \A q \in Slots : q < r => ~HealthFree(q)

Healthy(h, redisStatus) ==
    [h EXCEPT !.pc = "done", !.status = 200, !.body = "healthy", !.redis = redisStatus]
Unhealthy(h) == [h EXCEPT !.pc = "done", !.status = 503, !.body = "unhealthy"]

\* The request arrives; the handler awaits prisma.$queryRaw`SELECT 1`.
HealthStart(r) ==
    /\ HealthFreeSlot(r)
    /\ hreq' = [hreq EXCEPT ![r] = [IdleHealth EXCEPT !.pc = "query"]]
    /\ UNCHANGED <<server, authVars, streakVars, enrollVars, gateVars, profileVars, trackVars, shutVars, seedVars, achVars>>

\* $queryRaw returns or throws.  Then server.ts calls redis.ping() whatever
\* redis is (a TypeError into the catch block when it is null); the other
\* two files ping only if (redis) and else answer with redis 'disabled'.
HealthQuery(r, ok) ==
    /\ hreq[r].pc = "query"
    /\ LET h == [hreq[r] EXCEPT !.db = IF ok THEN "ok" ELSE "failed"]
       IN  hreq' = [hreq EXCEPT ![r] =
                       IF ~ok THEN Unhealthy(h)
                       ELSE IF redisOn THEN [h EXCEPT !.pc = "ping"]
                       ELSE IF server = "server.ts" THEN Unhealthy(h)
                       ELSE Healthy(h, "disabled")]
    /\ UNCHANGED <<server, authVars, streakVars, enrollVars, gateVars, profileVars, trackVars, shutVars, seedVars, achVars>>

\* redis.ping() returns or throws.
HealthPing(r, ok) ==
    /\ hreq[r].pc = "ping"
    /\ LET h == [hreq[r] EXCEPT !.ping = IF ok THEN "ok" ELSE "failed"]
       IN  hreq' = [hreq EXCEPT ![r] = IF ok THEN Healthy(h, "connected") ELSE Unhealthy(h)]
    /\ UNCHANGED <<server, authVars, streakVars, enrollVars, gateVars, profileVars, trackVars, shutVars, seedVars, achVars>>

InitHealth ==
    /\ backend = "db"
    /\ redisOn \in BOOLEAN
    /\ quota = 0
    /\ InitAuthVars
    /\ InitStreakVars
    /\ server \in HealthServers
    /\ hreq = [r \in Slots |-> IdleHealth]
    /\ InitEnrollVars
    /\ InitGateVars
    /\ InitProfileVars
    /\ InitTrackVars
    /\ InitShutVars
    /\ InitSeedVars
    /\ InitAchVars

NextHealth ==
    \/ \E r \in Slots : HealthStart(r)
    \/ \E r \in Slots, ok \in BOOLEAN : HealthQuery(r, ok)
    \/ \E r \in Slots, ok \in BOOLEAN : HealthPing(r, ok)

SpecHealth == InitHealth /\ [][NextHealth]_vars

\* C11: an answered GET /health is 200 'healthy' exactly when the database
\* check succeeded and Redis, if configured, answered the ping; without
\* Redis configured it reports redis 'disabled'; every other answer is 503
\* 'unhealthy'.
C11_HealthAnswer ==
    \A r \in Slots :
        hreq[r].pc = "done" =>
            LET ok == hreq[r].db = "ok" /\ (redisOn => hreq[r].ping = "ok")
            IN  /\ ok => (hreq[r].status = 200 /\ hreq[r].body = "healthy")
                /\ (ok /\ ~redisOn) => hreq[r].redis = "disabled"
                /\ ~ok => (hreq[r].status = 503 /\ hreq[r].body = "unhealthy")


(***************************************************************************)
(* Program enrollment: POST /programs/:id/enroll and                       *)
(* PUT /programs/enrollments/:enrollmentId/progress                        *)
(* (src/routes/program.routes.ts; the older handler of part_003 has the    *)
(* same three awaits with findFirst in place of findUnique).  Every await  *)
(* is a step, so two requests interleave between the lookup and the write. *)
(* Database calls return; the one throw modelled is the unique-key         *)
(* violation of create.                                                    *)
(***************************************************************************)

\* The program table: durationWeeks and daysPerWeek of the programs that
\* exist.  "empty" has no weeks, so its total days are 0.
ProgramRows ==
    [p \in {"plan", "empty"} |->
        IF p = "plan" THEN [durationWeeks |-> MaxPlanDays, daysPerWeek |-> 1]
                      ELSE [durationWeeks |-> 0, daysPerWeek |-> 1]]
ProgramIds == DOMAIN ProgramRows
\* The :id values of requests: the programs and one id naming no program.
RequestProgramIds == ProgramIds \cup {"gone"}

\* The bodies of progress requests: <<currentWeek, currentDay, completedDays>>,
\* Undef for a field the body does not carry.
ProgressBodies ==
    {<<Undef, Undef, Undef>>, <<2, Undef, Undef>>, <<Undef, 2, 1>>} \cup
    {<<Undef, Undef, d>> : d \in 1..MaxPlanDays}

EnrollFree(r) == ereq[r].pc \in {"idle", "done"}
EnrollFreeSlot(r) == EnrollFree(r) /\ \A q \in Slots : q < r => ~EnrollFree(q)
EnrollAt(r, op, pc) == ereq[r].op = op /\ ereq[r].pc = pc
EnrollAnswer(r, status) ==
    ereq' = [ereq EXCEPT ![r] = [@ EXCEPT !.pc = "done", !.status = status]]
EnrollGoto(r, pc) == ereq' = [ereq EXCEPT ![r] = [@ EXCEPT !.pc = pc]]

\* The rows of one (user, program) pair.
EnrollmentsOf(u, p) == {e \in enrollments : e.userId = u /\ e.programId = p}
\* Row ids are fresh: rows are never deleted.
NextEnrollmentId == Cardinality(enrollments) + 1
\* create({ data: { userId, programId } }): the other columns take their defaults.
NewEnrollment(u, p) ==
    [id |-> NextEnrollmentId, userId |-> u, programId |-> p, currentWeek |-> 1,
     currentDay |-> 1, completedDays |-> 0, completedAt |-> Undef, isActive |-> TRUE]

\* A table whose create never throws.
NoKeyConflict(u, p) == FALSE
\* create throws when the table has the unique key and the pair has a row.
KeyConflict(u, p) == enrollKey /\ EnrollmentsOf(u, p) # {}

\* POST /programs/:id/enroll arrives with req.user = u; the handler awaits
\* program.findUnique.
EnrollStart(r, u, p) ==
    /\ quota > 0
    /\ EnrollFreeSlot(r)
    /\ quota' = quota - 1
    /\ ereq' = [ereq EXCEPT ![r] =
                   [IdleEnroll EXCEPT !.op = "enroll", !.pc = "findProgram", !.userId = u,
                                      !.programId = p,
                                      !.enrolled = EnrollmentsOf(u, p) # {}]]
    /\ UNCHANGED <<backend, redisOn, now, ticks, users, refreshTokens, redisStore, issued,
                   limiter, req, hist, enrollKey, enrollments, streakVars, healthVars, gateVars, profileVars, trackVars, shutVars, seedVars, achVars>>

\* program.findUnique returned: 404 without the program, else the handler
\* awaits the lookup of the user's enrollment.
EnrollFindProgram(r) ==
    /\ EnrollAt(r, "enroll", "findProgram")
    /\ IF ereq[r].programId \in ProgramIds
       THEN EnrollGoto(r, "findExisting")
       ELSE EnrollAnswer(r, 404)
    /\ UNCHANGED <<enrollKey, enrollments, authVars, streakVars, healthVars, gateVars, profileVars, trackVars, shutVars, seedVars, achVars>>

\* The enrollment lookup returned: 409 with a row, else the handler awaits
\* the create.
EnrollFindExisting(r) ==
    /\ EnrollAt(r, "enroll", "findExisting")
    /\ IF EnrollmentsOf(ereq[r].userId, ereq[r].programId) # {}
       THEN EnrollAnswer(r, 409)
       ELSE EnrollGoto(r, "create")
    /\ UNCHANGED <<enrollKey, enrollments, authVars, streakVars, healthVars, gateVars, profileVars, trackVars, shutVars, seedVars, achVars>>

\* create returned (201 with the new row) or threw on the key (catch: 500).
EnrollCreate(r) ==
    /\ EnrollAt(r, "enroll", "create")
    /\ IF KeyConflict(ereq[r].userId, ereq[r].programId)
       THEN /\ EnrollAnswer(r, 500)
            /\ UNCHANGED enrollments
       ELSE /\ EnrollAnswer(r, 201)
            /\ enrollments' = enrollments \cup
                                {NewEnrollment(ereq[r].userId, ereq[r].programId)}
    /\ UNCHANGED <<enrollKey, authVars, streakVars, healthVars, gateVars, profileVars, trackVars, shutVars, seedVars, achVars>>

\* totalDays = (program?.durationWeeks ?? 0) * (program?.daysPerWeek ?? 0)
TotalDays(p) ==
    IF p \in ProgramIds THEN ProgramRows[p].durationWeeks * ProgramRows[p].daysPerWeek ELSE 0
\* newCompleted = completedDays ?? enrollment.completedDays
NewCompleted(supplied, stored) == IF supplied # Undef THEN supplied ELSE stored
\* The completion test with the total alone.
IsCompletedAnyDays(total, newCompleted) == total > 0
\* isCompleted = totalDays > 0 && newCompleted >= totalDays
IsCompleted(total, newCompleted) == total > 0 /\ newCompleted >= total

\* PUT /programs/enrollments/:enrollmentId/progress arrives with req.user = u;
\* the handler awaits programEnrollment.findFirst.
ProgressStart(r, u, id, b) ==
    /\ quota > 0
    /\ EnrollFreeSlot(r)
    /\ quota' = quota - 1
    /\ ereq' = [ereq EXCEPT ![r] =
                   [IdleEnroll EXCEPT !.op = "progress", !.pc = "findEnrollment",
                                      !.userId = u, !.enrollmentId = id,
                                      !.currentWeek = b[1], !.currentDay = b[2],
                                      !.completedDays = b[3]]]
    /\ UNCHANGED <<backend, redisOn, now, ticks, users, refreshTokens, redisStore, issued,
                   limiter, req, hist, enrollKey, enrollments, streakVars, healthVars, gateVars, profileVars, trackVars, shutVars, seedVars, achVars>>

\* findFirst({ where: { id, userId } }) returned: 404 without a row of this
\* user, else the handler keeps the row and awaits program.findUnique.
ProgressFindEnrollment(r) ==
    /\ EnrollAt(r, "progress", "findEnrollment")
    /\ LET found == {e \in enrollments :
                        e.id = ereq[r].enrollmentId /\ e.userId = ereq[r].userId}
       IN  IF found = {}
           THEN EnrollAnswer(r, 404)
           ELSE \E e \in found :
                    ereq' = [ereq EXCEPT ![r] =
                                [@ EXCEPT !.pc = "findProgram", !.seenDays = e.completedDays,
                                          !.seenProgram = e.programId]]
    /\ UNCHANGED <<enrollKey, enrollments, authVars, streakVars, healthVars, gateVars, profileVars, trackVars, shutVars, seedVars, achVars>>

\* program.findUnique returned; the handler computes isCompleted and awaits
\* the update.
ProgressFindProgram(r) ==
    /\ EnrollAt(r, "progress", "findProgram")
    /\ EnrollGoto(r, "update")
    /\ UNCHANGED <<enrollKey, enrollments, authVars, streakVars, healthVars, gateVars, profileVars, trackVars, shutVars, seedVars, achVars>>

\* The row the update writes: the supplied fields, and completedAt and
\* isActive when isCompleted.
UpdatedEnrollment(e, rq) ==
    LET done == IsCompleted(TotalDays(rq.seenProgram),
                            NewCompleted(rq.completedDays, rq.seenDays))
    IN  [e EXCEPT !.currentWeek = IF rq.currentWeek # Undef THEN rq.currentWeek ELSE @,
                  !.currentDay = IF rq.currentDay # Undef THEN rq.currentDay ELSE @,
                  !.completedDays = IF rq.completedDays # Undef THEN rq.completedDays ELSE @,
                  !.completedAt = IF done THEN now ELSE @,
                  !.isActive = IF done THEN FALSE ELSE @]

\* programEnrollment.update({ where: { id } }) returned: 200.
ProgressUpdate(r) ==
    /\ EnrollAt(r, "progress", "update")
    /\ enrollments' = {IF e.id = ereq[r].enrollmentId THEN UpdatedEnrollment(e, ereq[r]) ELSE e :
                          e \in enrollments}
    /\ EnrollAnswer(r, 200)
    /\ UNCHANGED <<enrollKey, authVars, streakVars, healthVars, gateVars, profileVars, trackVars, shutVars, seedVars, achVars>>

\* The clock of completedAt = new Date().
EnrollJumps == {1}

InitEnroll ==
    /\ backend = "db"
    /\ redisOn = FALSE
    /\ quota = MaxEnrollRequests
    /\ InitAuthVars
    /\ InitStreakVars
    /\ InitHealthVars
    /\ InitGateVars
    /\ InitProfileVars
    /\ InitTrackVars
    /\ InitShutVars
    /\ InitSeedVars
    /\ InitAchVars
    /\ enrollKey \in BOOLEAN
    /\ enrollments = {}
    /\ ereq = [r \in Slots |-> IdleEnroll]

NextEnroll ==
    \/ \E d \in EnrollJumps : Tick(d)
    \/ \E r \in Slots, u \in UserIds, p \in RequestProgramIds : EnrollStart(r, u, p)
    \/ \E r \in Slots : EnrollFindProgram(r)
    \/ \E r \in Slots : EnrollFindExisting(r)
    \/ \E r \in Slots : EnrollCreate(r)
    \/ \E r \in Slots, u \in UserIds, id \in 1..MaxEnrollments, b \in ProgressBodies :
           ProgressStart(r, u, id, b)
    \/ \E r \in Slots : ProgressFindEnrollment(r)
    \/ \E r \in Slots : ProgressFindProgram(r)
    \/ \E r \in Slots : ProgressUpdate(r)

SpecEnroll == InitEnroll /\ [][NextEnroll]_vars


(***************************************************************************)
(* Properties of the enrollment handlers                                   *)
(***************************************************************************)
\* Request r is an enroll request answered in this step.
EnrollAnswered(r) ==
    /\ ereq[r].op = "enroll"
    /\ ereq[r].pc # "done"
    /\ ereq'[r].pc = "done"

AtMostOneEnrollment ==
    \A u \in UserIds, p \in ProgramIds : Cardinality(EnrollmentsOf(u, p)) <= 1

EnrollmentRow(i) == CHOOSE e \in enrollments : e.id = i
EnrollmentRowAfter(i) == CHOOSE e \in enrollments' : e.id = i

\* Request r is a progress request whose update is written in this step.
ProgressWritten(r) ==
    /\ ereq[r].op = "progress"
    /\ ereq[r].pc = "update"
    /\ ereq'[r].pc = "done"

ProtectedRouters == {"workouts", "programs", "progress", "users", "subscriptions"}

\* The Authorization headers tried: none, one of another scheme, and
\* 'Bearer ' followed by an access token, a refresh token, a string signed
\* with neither secret, or nothing.
GateHeaders ==
    {<<"missing", NoToken>>, <<"Basic", ForgedToken>>}
        \cup {<<"Bearer", t>> : t \in PresentableAccess \cup PresentableRefresh}

GateFree(r) == preq[r].pc \in {"idle", "done"}
GateFreeSlot(r) == GateFree(r) /\ \A q \in Slots : q < r => ~GateFree(q)
GateAnswer(rq, status) == [rq EXCEPT !.pc = "done", !.status = status]

\* A request arrives at a protected router and authenticate runs up to its
\* await: 401 'No token provided.' unless the header starts with 'Bearer ',
\* 401 'Invalid or expired token.' when jwt.verify throws, else the awaited
\* user.findUnique.
GateStart(r, router, h) ==
    /\ quota > 0
    /\ GateFreeSlot(r)
    /\ quota' = quota - 1
    /\ LET rq == [IdleGate EXCEPT !.router = router, !.scheme = h[1], !.token = h[2],
                                  !.at = now]
       IN  preq' = [preq EXCEPT ![r] =
                       IF h[1] # "Bearer" THEN GateAnswer(rq, 401)
                       ELSE IF ~VerifiesAccess(h[2]) THEN GateAnswer(rq, 401)
                       ELSE [rq EXCEPT !.pc = "findUser"]]
    /\ UNCHANGED <<backend, redisOn, now, ticks, users, refreshTokens, redisStore, issued,
                   limiter, req, hist, handled, streakVars, healthVars, enrollVars, profileVars, trackVars, shutVars, seedVars, achVars>>

\* user.findUnique({ where: { id: decoded.userId } }) returned or threw: 401
\* from the catch block, 401 'User not found.' without the row, else
\* req.user = user and next().
GateFindUser(r, fault) ==
    /\ preq[r].pc = "findUser"
    /\ preq' = [preq EXCEPT ![r] =
                   IF fault THEN GateAnswer(@, 401)
                   ELSE IF users[preq[r].token.uid] = NoUser THEN GateAnswer(@, 401)
                   ELSE [@ EXCEPT !.pc = "handler", !.user = preq[r].token.uid]]
    /\ UNCHANGED <<handled, authVars, streakVars, healthVars, enrollVars, profileVars, trackVars, shutVars, seedVars, achVars>>

\* The route handler runs with req.user and answers.
GateHandler(r) ==
    /\ preq[r].pc = "handler"
    /\ handled' = handled \cup {<<preq[r].router, preq[r].user>>}
    /\ preq' = [preq EXCEPT ![r] = GateAnswer(@, 200)]
    /\ UNCHANGED <<authVars, streakVars, healthVars, enrollVars, profileVars, trackVars, shutVars, seedVars, achVars>>

\* Access tokens expire while the clock runs.
GateJumps == {1, AccessExpiresSec}

\* Tokens were signed at time 0 for every user id; a user's row exists or was
\* removed from the table since (no route removes one).
InitGate ==
    /\ backend = "db"
    /\ redisOn = FALSE
    /\ quota = MaxGateRequests
    /\ now = 0
    /\ ticks = 0
    /\ users \in [UserIds -> {NoUser, Hash("password1")}]
    /\ refreshTokens = {}
    /\ redisStore = [u \in UserIds |-> {}]
    /\ issued = {[uid |-> u, iat |-> 0] : u \in UserIds}
    /\ limiter = [hits |-> 0, resetTime |-> 0]
    /\ req = [r \in Slots |-> IdleReq]
    /\ hist = [rotated |-> {}, loggedOut |-> {}, stale |-> {}]
    /\ InitStreakVars
    /\ InitAppVars

NextGate ==
    \/ \E d \in GateJumps : Tick(d)
    \/ \E r \in Slots, router \in ProtectedRouters, h \in GateHeaders : GateStart(r, router, h)
    \/ \E r \in Slots, fault \in BOOLEAN : GateFindUser(r, fault)
    \/ \E r \in Slots : GateHandler(r)

SpecGate == InitGate /\ [][NextGate]_vars

\* C14: a handler of a protected router starts only for a request whose
\* header is 'Bearer <token>' with an access token that was unexpired when the
\* request arrived and names an existing user, and req.user is that user;
\* every request answered without its handler having run is answered 401; and
\* nothing but a running handler changes the state.
C14_AuthenticationGate ==
    [][\A r \in Slots :
        /\ (preq[r].pc # "handler" /\ preq'[r].pc = "handler") =>
               LET rq == preq'[r]
               IN  /\ rq.router \in ProtectedRouters
                   /\ rq.scheme = "Bearer"
                   /\ rq.token.kind = "access"
                   /\ [uid |-> rq.token.uid, iat |-> rq.token.iat] \in issued
                   /\ rq.at < rq.token.iat + AccessExpiresSec
                   /\ users[rq.token.uid] # NoUser
                   /\ rq.user = rq.token.uid
        /\ (preq[r].pc \notin {"handler", "done"} /\ preq'[r].pc = "done") =>
               preq'[r].status = 401
        /\ (handled' # handled \/ users' # users) =>
               \E q \in Slots : preq[q].pc = "handler" /\ preq'[q].pc = "done"]_vars

\* A handler ran for a user while a request that presented a refresh token as
\* Bearer token and one that presented an expired access token got 401.
C14_Witness ==
    /\ handled # {}
    /\ \E r \in Slots :
        /\ preq[r].pc = "done" /\ preq[r].status = 401
        /\ preq[r].scheme = "Bearer" /\ preq[r].token.kind = "refresh"


(***************************************************************************)
(* Properties of POST /auth/logout                                         *)
(***************************************************************************)
\* The store holds no refresh token equal to t: no row of the table, or a
\* different value (or none) under the user's redis key.
UnknownToStore(t) ==
    IF backend = "db" THEN RowsOfToken(t) = {}
    ELSE t.kind # "refresh" \/ t \notin RedisGet(t.uid)

\* The refresh tokens redis holds: the values of the keys that have not expired.
RedisTokens == [u \in UserIds |-> RedisGet(u)]

\* C15: every POST /auth/logout is answered 200, and one whose refreshToken
\* is missing, was never signed with the refresh secret, or is unknown to the
\* store removes no refresh token of any user.
C15_LogoutAlways200 ==
    [][\A r \in Slots :
        (req'[r].op = "logout" /\ req'[r].pc = "done" /\ req'[r] # req[r]) =>
            /\ req'[r].status = 200
            /\ (req'[r].token = NoToken \/ req'[r].token.kind = "forged"
                    \/ UnknownToStore(req'[r].token)) =>
                   (refreshTokens' = refreshTokens /\ RedisTokens' = RedisTokens)]_vars


(***************************************************************************)
(* Properties of the user and profile tables                               *)
(***************************************************************************)
\* C16: every user row has a profile row and every profile row has its user,
\* in every reachable state, failed registrations included.
C16_UserAndProfileTogether ==
    \A u \in UserIds : (users[u] # NoUser) <=> (u \in profiles)


(***************************************************************************)
(* POST /progress of the second progress router and its updateStreak       *)
(* helper (src/routes/progress.routes.ts, from line 204): the Streak row   *)
(* is kept up to date after every logged workout.  Every await is a step;  *)
(* midnight can pass between any two steps.                                *)
(***************************************************************************)
LogFree(r) == lreq[r].pc \in {"idle", "done"}
LogFreeSlot(r) == LogFree(r) /\ \A q \in Slots : q < r => ~LogFree(q)

\* The user's Streak row, as a set: findUnique({ where: { userId } }).
StreakOf(u) == streaks[u]
\* WorkoutLog ids are fresh: rows are never deleted.
NextLogId == Cardinality(dayLogs) + 1

\* A handler that lets a failure of updateStreak reach its own catch block.
AfterStreakRethrown(rq, outcome) ==
    [rq EXCEPT !.pc = "done", !.streak = outcome,
               !.status = IF outcome \in {"readFailed", "writeFailed"} THEN 500 ELSE 201]
\* updateStreak returned (its catch block swallows every throw); the handler
\* answers 201 with the log.
AfterStreak(rq, outcome) == [rq EXCEPT !.pc = "done", !.streak = outcome, !.status = 201]

\* A helper without the early return.
NeverLoggedToday(last, day) == FALSE
\* last.getTime() === today.getTime()
LoggedToday(last, day) == last = day
\* last.getTime() === yesterday.getTime()
IsConsecutive(last, day) == last = day - 1

\* The clock passes midnight.
Midnight ==
    /\ today < MaxTrackDay
    /\ today' = today + 1
    /\ UNCHANGED <<dayLogs, streaks, lreq, held, missed, authVars, streakVars, healthVars,
                   enrollVars, gateVars, profileVars, shutVars, seedVars, achVars>>

\* POST /progress arrives with req.user = u: 400 without exerciseId or
\* duration, else the awaited workoutLog.create.
LogStart(r, u, valid) ==
    /\ quota > 0
    /\ LogFreeSlot(r)
    /\ quota' = quota - 1
    /\ lreq' = [lreq EXCEPT ![r] =
                   IF valid THEN [IdleLog EXCEPT !.pc = "create", !.userId = u]
                   ELSE [IdleLog EXCEPT !.pc = "done", !.userId = u, !.status = 400]]
    /\ UNCHANGED <<backend, redisOn, now, ticks, users, refreshTokens, redisStore, issued,
                   limiter, req, hist, today, dayLogs, streaks, held, missed, streakVars,
                   healthVars, enrollVars, gateVars, profileVars, shutVars, seedVars, achVars>>

\* workoutLog.create inserts the row, dated now() by the schema default, or
\* throws (the handler's catch block: 500).
LogCreate(r, fault) ==
    /\ lreq[r].pc = "create"
    /\ IF fault
       THEN /\ lreq' = [lreq EXCEPT ![r] = [@ EXCEPT !.pc = "done", !.status = 500]]
            /\ UNCHANGED dayLogs
       ELSE /\ dayLogs' = dayLogs \cup
                            {[id |-> NextLogId, userId |-> lreq[r].userId, day |-> today]}
            /\ lreq' = [lreq EXCEPT ![r] = [@ EXCEPT !.pc = "created", !.log = NextLogId]]
    /\ UNCHANGED <<today, streaks, held, missed, authVars, streakVars, healthVars, enrollVars,
                   gateVars, profileVars, shutVars, seedVars, achVars>>

\* The create returned and updateStreak starts: today = new Date() at
\* midnight, then the awaited streak.findUnique.
LogUpdateStreak(r) ==
    /\ lreq[r].pc = "created"
    /\ lreq' = [lreq EXCEPT ![r] = [@ EXCEPT !.pc = "findStreak", !.today = today]]
    /\ UNCHANGED <<today, dayLogs, streaks, held, missed, authVars, streakVars, healthVars,
                   enrollVars, gateVars, profileVars, shutVars, seedVars, achVars>>

\* streak.findUnique returned or threw.  Without a row the helper awaits
\* streak.create; with a row of today it returns; else it computes newCurrent
\* and newLongest and awaits streak.update.
LogFindStreak(r, fault) ==
    /\ lreq[r].pc = "findStreak"
    /\ LET rq == lreq[r]
           existing == StreakOf(rq.userId)
       IN  /\ lreq' = [lreq EXCEPT ![r] =
                IF fault THEN AfterStreak(rq, "readFailed")
                ELSE IF existing = {} THEN [rq EXCEPT !.pc = "createStreak"]
                ELSE LET e == CHOOSE x \in existing : TRUE
                         newCurrent == IF IsConsecutive(e.lastWorkoutDate, rq.today)
                                       THEN e.currentStreak + 1 ELSE 1
                     IN  IF LoggedToday(e.lastWorkoutDate, rq.today)
                         THEN AfterStreak(rq, "loggedToday")
                         ELSE [rq EXCEPT !.pc = "updateStreak", !.newCurrent = newCurrent,
                                         !.newLongest = Max2(e.longestStreak, newCurrent)]]
           /\ missed' = IF fault THEN missed \cup {rq.userId} ELSE missed
    /\ UNCHANGED <<today, dayLogs, streaks, held, authVars, streakVars, healthVars, enrollVars,
                   gateVars, profileVars, shutVars, seedVars, achVars>>

\* streak.create inserts { currentStreak: 1, longestStreak: 1, lastWorkoutDate:
\* today }, or throws: a fault, or the unique userId when a concurrent first
\* log created the row.
LogCreateStreak(r, fault) ==
    /\ lreq[r].pc = "createStreak"
    /\ LET rq == lreq[r]
       IN  IF fault \/ StreakOf(rq.userId) # {}
           THEN /\ lreq' = [lreq EXCEPT ![r] = AfterStreak(rq, "writeFailed")]
                /\ missed' = missed \cup {rq.userId}
                /\ UNCHANGED <<streaks, held>>
           ELSE /\ lreq' = [lreq EXCEPT ![r] = AfterStreak(rq, "created")]
                /\ streaks' = [streaks EXCEPT ![rq.userId] =
                                  {[currentStreak |-> 1, longestStreak |-> 1,
                                    lastWorkoutDate |-> rq.today]}]
                /\ held' = [held EXCEPT ![rq.userId] = @ \cup {1}]
                /\ UNCHANGED missed
    /\ UNCHANGED <<today, dayLogs, authVars, streakVars, healthVars, enrollVars, gateVars,
                   profileVars, shutVars, seedVars, achVars>>

\* streak.update writes the computed values, or throws.
LogWriteStreak(r, fault) ==
    /\ lreq[r].pc = "updateStreak"
    /\ LET rq == lreq[r]
       IN  IF fault
           THEN /\ lreq' = [lreq EXCEPT ![r] = AfterStreak(rq, "writeFailed")]
                /\ missed' = missed \cup {rq.userId}
                /\ UNCHANGED <<streaks, held>>
           ELSE /\ lreq' = [lreq EXCEPT ![r] = AfterStreak(rq, "updated")]
                /\ streaks' = [streaks EXCEPT ![rq.userId] =
                                  {[currentStreak |-> rq.newCurrent,
                                    longestStreak |-> rq.newLongest,
                                    lastWorkoutDate |-> rq.today]}]
                /\ held' = [held EXCEPT ![rq.userId] = @ \cup {rq.newCurrent}]
                /\ UNCHANGED missed
    /\ UNCHANGED <<today, dayLogs, authVars, streakVars, healthVars, enrollVars, gateVars,
                   profileVars, shutVars, seedVars, achVars>>

InitTrack ==
    /\ backend = "db"
    /\ redisOn = FALSE
    /\ quota = MaxTrackRequests
    /\ InitAuthVars
    /\ InitStreakVars
    /\ InitAppVars

NextTrack ==
    \/ Midnight
    \/ \E r \in Slots, u \in UserIds, valid \in BOOLEAN : LogStart(r, u, valid)
    \/ \E r \in Slots, fault \in Faults : LogCreate(r, fault)
    \/ \E r \in Slots : LogUpdateStreak(r)
    \/ \E r \in Slots, fault \in Faults : LogFindStreak(r, fault)
    \/ \E r \in Slots, fault \in Faults : LogCreateStreak(r, fault)
    \/ \E r \in Slots, fault \in Faults : LogWriteStreak(r, fault)

SpecTrack == InitTrack /\ [][NextTrack]_vars

(***************************************************************************)
(* Properties of POST /progress and the Streak row                         *)
(***************************************************************************)
\* C17: a POST /progress request that created its workout log is answered
\* 201, and the log is in the table, whether updateStreak succeeded, failed
\* on its read, or failed on its create or update.
C17_StreakFailureNonFatal ==
    \A r \in Slots :
        (lreq[r].pc = "done" /\ lreq[r].log # 0) =>
            /\ lreq[r].status = 201
            /\ \E l \in dayLogs : l.id = lreq[r].log /\ l.userId = lreq[r].userId

\* Two concurrent first logs of a user: one created the Streak row, the
\* create of the other threw on the unique userId, and both were answered 201.
C17_Witness ==
    \E r, q \in Slots :
        /\ lreq[r].pc = "done" /\ lreq[q].pc = "done"
        /\ lreq[r].userId = lreq[q].userId
        /\ lreq[r].log # 0 /\ lreq[q].log # 0 /\ lreq[r].log # lreq[q].log
        /\ lreq[r].streak = "created" /\ lreq[q].streak = "writeFailed"
        /\ lreq[r].status = 201 /\ lreq[q].status = 201

LogQuiescent == \A r \in Slots : LogFree(r)
\* The calendar days on which the user has a log.
DaysLogged(u) == {l.day : l \in {x \in dayLogs : x.userId = u}}

\* C19: once the POST /progress requests of a user whose updateStreak calls
\* all returned without a throw are answered, the user's Streak row has
\* currentStreak equal to the run of consecutive logged days ending at the
\* most recent logged day and longestStreak equal to the greatest value
\* currentStreak has held, with longestStreak >= currentStreak >= 1.
C19_StreakTracksLogs ==
    \A u \in UserIds :
        (LogQuiescent /\ DaysLogged(u) # {} /\ u \notin missed) =>
            /\ StreakOf(u) # {}
            /\ \A e \in StreakOf(u) :
                /\ e.currentStreak = RunEndingAt(DaysLogged(u), SetMax(DaysLogged(u)))
                /\ e.longestStreak = SetMax(held[u])
                /\ e.longestStreak >= e.currentStreak
                /\ e.currentStreak >= 1


(***************************************************************************)
(* Graceful shutdown (part_002 137-166, server.ts 144-175, part_001        *)
(* 152-186).  Every SIGTERM or SIGINT calls gracefulShutdown, which        *)
(* registers a callback with server.close and sets a 10 second timer.  The *)
(* callback runs once the server has no open connection.  A step that      *)
(* hangs is a step that is never taken; the timer is the one thing the     *)
(* event loop is bound to run.                                             *)
(***************************************************************************)
\* process.exit(1) of the catch block, as process.exit(0).
CaughtExitsClean(code) == 0
\* The catch block: logger.error, process.exit(1).
Caught(code) == 1

\* redis.quit() is called: always in server.ts, if (redis) in the other two.
CallsQuit == server = "server.ts" \/ redisOn

ShutTask(i, pc) == tasks[i].pc = pc /\ exitCode = Running
ShutEvent(e) == events' = Append(events, e)

\* A client opens or ends a connection while the server is listening; after
\* server.close only ending is left.
ConnectionOpens ==
    /\ exitCode = Running
    /\ \A i \in 1..MaxSignals : tasks[i].pc = "none"
    /\ connections < MaxConnections
    /\ connections' = connections + 1
    /\ UNCHANGED <<exitCode, tasks, events, server, hreq, authVars, streakVars, enrollVars,
                   gateVars, profileVars, trackVars, seedVars, achVars>>

ConnectionEnds ==
    /\ exitCode = Running
    /\ connections > 0
    /\ connections' = connections - 1
    /\ UNCHANGED <<exitCode, tasks, events, server, hreq, authVars, streakVars, enrollVars,
                   gateVars, profileVars, trackVars, seedVars, achVars>>

\* SIGTERM or SIGINT: gracefulShutdown calls server.close(callback) and
\* setTimeout(..., 10000).
Signal(i) ==
    /\ ShutTask(i, "none")
    /\ \A j \in 1..MaxSignals : j < i => tasks[j].pc # "none"
    /\ tasks' = [tasks EXCEPT ![i] = [pc |-> "closing", timer |-> TRUE]]
    /\ UNCHANGED <<exitCode, connections, events, server, hreq, authVars, streakVars,
                   enrollVars, gateVars, profileVars, trackVars, seedVars, achVars>>

\* The server has closed (no connection is left): the callback runs up to
\* its awaited prisma.$disconnect().
ServerClosed(i) ==
    /\ ShutTask(i, "closing")
    /\ connections = 0
    /\ tasks' = [tasks EXCEPT ![i].pc = "disconnect"]
    /\ ShutEvent("closed")
    /\ UNCHANGED <<exitCode, connections, server, hreq, authVars, streakVars, enrollVars,
                   gateVars, profileVars, trackVars, seedVars, achVars>>

\* prisma.$disconnect() returned or threw.  After it the callback calls
\* redis.quit() (a TypeError in server.ts when redis is null) or, without
\* redis, exits 0.
Disconnected(i, ok) ==
    /\ ShutTask(i, "disconnect")
    /\ IF ~ok
       THEN /\ exitCode' = Caught(exitCode)
            /\ tasks' = [tasks EXCEPT ![i].pc = "threw"]
            /\ UNCHANGED events
       ELSE /\ ShutEvent("disconnected")
            /\ IF ~CallsQuit
               THEN /\ exitCode' = 0
                    /\ tasks' = [tasks EXCEPT ![i].pc = "completed"]
               ELSE IF ~redisOn
               THEN /\ exitCode' = Caught(exitCode)
                    /\ tasks' = [tasks EXCEPT ![i].pc = "threw"]
               ELSE /\ tasks' = [tasks EXCEPT ![i].pc = "quit"]
                    /\ UNCHANGED exitCode
    /\ UNCHANGED <<connections, server, hreq, authVars, streakVars, enrollVars, gateVars,
                   profileVars, trackVars, seedVars, achVars>>

\* redis.quit() returned (process.exit(0)) or threw.
RedisQuit(i, ok) ==
    /\ ShutTask(i, "quit")
    /\ IF ok
       THEN /\ ShutEvent("quit")
            /\ exitCode' = 0
            /\ tasks' = [tasks EXCEPT ![i].pc = "completed"]
       ELSE /\ exitCode' = Caught(exitCode)
            /\ tasks' = [tasks EXCEPT ![i].pc = "threw"]
            /\ UNCHANGED events
    /\ UNCHANGED <<connections, server, hreq, authVars, streakVars, enrollVars, gateVars,
                   profileVars, trackVars, seedVars, achVars>>

\* The 10 second timer of a gracefulShutdown call fires: process.exit(1).
TimerFires(i) ==
    /\ exitCode = Running
    /\ tasks[i].timer
    /\ exitCode' = 1
    /\ tasks' = [tasks EXCEPT ![i].pc = "forced"]
    /\ UNCHANGED <<connections, events, server, hreq, authVars, streakVars, enrollVars,
                   gateVars, profileVars, trackVars, seedVars, achVars>>

InitShutdown ==
    /\ backend = "db"
    /\ redisOn \in BOOLEAN
    /\ quota = 0
    /\ InitAuthVars
    /\ InitStreakVars
    /\ server \in HealthServers
    /\ hreq = [r \in Slots |-> IdleHealth]
    /\ InitEnrollVars
    /\ InitGateVars
    /\ InitProfileVars
    /\ InitTrackVars
    /\ InitShutVars
    /\ InitSeedVars
    /\ InitAchVars

NextShutdown ==
    \/ ConnectionOpens
    \/ ConnectionEnds
    \/ \E i \in 1..MaxSignals : Signal(i)
    \/ \E i \in 1..MaxSignals : ServerClosed(i)
    \/ \E i \in 1..MaxSignals, ok \in BOOLEAN : Disconnected(i, ok)
    \/ \E i \in 1..MaxSignals, ok \in BOOLEAN : RedisQuit(i, ok)
    \/ \E i \in 1..MaxSignals : TimerFires(i)

\* The event loop runs a timer that is due: nothing in the shutdown path
\* blocks it.
SpecShutdown ==
    InitShutdown /\ [][NextShutdown]_vars /\ WF_vars(\E i \in 1..MaxSignals : TimerFires(i))

(***************************************************************************)
(* Properties of the graceful shutdown                                     *)
(***************************************************************************)
Signalled == \E i \in 1..MaxSignals : tasks[i].pc # "none"

\* The steps of `wanted` occur in `events` in this order.
RECURSIVE InOrder(_, _)
InOrder(wanted, seq) ==
    IF wanted = <<>> THEN TRUE
    ELSE IF seq = <<>> THEN FALSE
    ELSE IF Head(seq) = Head(wanted) THEN InOrder(Tail(wanted), Tail(seq))
    ELSE InOrder(wanted, Tail(seq))

\* C20: after a signal the process eventually exits; when it has exited 0
\* the HTTP server closed, then the database client disconnected, then redis
\* (when configured) quit; and when a step threw or the timer fired before
\* the exit, the exit code is 1.
C20_GracefulShutdown ==
    /\ Signalled ~> (exitCode # Running)
    /\ [](exitCode = 0 =>
             InOrder(IF redisOn THEN <<"closed", "disconnected", "quit">>
                     ELSE <<"closed", "disconnected">>, events))
    /\ []((\E i \in 1..MaxSignals : tasks[i].pc \in {"threw", "forced"}) => exitCode = 1)

\* With redis configured the process has exited 0 after all three steps,
\* while a second signal's callback was still at an earlier step.
C20_Witness ==
    /\ redisOn
    /\ exitCode = 0
    /\ events[Len(events)] = "quit"
    /\ \E i \in 1..MaxSignals : tasks[i].pc \in {"disconnect", "quit"}


(***************************************************************************)
(* The seed route: GET /seed?secret=... (part_006, from line 116).  The    *)
(* two checks run before the first await; then the handler upserts the     *)
(* exercises, the achievements and the programs, one awaited loop after    *)
(* the other, any of which can throw into the catch block.                 *)
(***************************************************************************)
\* The values of ?secret= and of SEED_SECRET: a missing one is {}, a present
\* one {string}; ?secret= and an empty environment variable are {""}.
SecretValues == {{}, {""}, {"s3cret"}, {"guess"}}
SeedSecrets == {{}, {""}, {"s3cret"}}

\* A check that lets any present secret pass.
AnySecret(secret, expected) == secret \in {{}, {""}}
\* !expected: undefined or the empty string.
NotSet(expected) == expected \in {{}, {""}}
\* !secret || secret !== expected
SecretRefused(secret, expected) == secret \in {{}, {""}} \/ secret # expected

\* The groups of rows, in the order of the handler's loops.
SeedGroups == <<"exercises", "achievements", "programs">>

SeedFree(r) == sreq[r].pc \in {"idle", "done"}
SeedFreeSlot(r) == SeedFree(r) /\ \A q \in Slots : q < r => ~SeedFree(q)

\* GET /seed arrives: 500 when SEED_SECRET is not set, 401 when the secret
\* is refused, else the first awaited upsert.
SeedStart(r, secret) ==
    /\ quota > 0
    /\ SeedFreeSlot(r)
    /\ quota' = quota - 1
    /\ sreq' = [sreq EXCEPT ![r] =
                   IF NotSet(seedSecret)
                   THEN [IdleSeed EXCEPT !.pc = "done", !.secret = secret, !.status = 500]
                   ELSE IF SecretRefused(secret, seedSecret)
                   THEN [IdleSeed EXCEPT !.pc = "done", !.secret = secret, !.status = 401]
                   ELSE [IdleSeed EXCEPT !.pc = SeedGroups[1], !.secret = secret]]
    /\ UNCHANGED <<backend, redisOn, now, ticks, users, refreshTokens, redisStore, issued,
                   limiter, req, hist, seedSecret, seeded, streakVars, healthVars, enrollVars,
                   gateVars, profileVars, trackVars, shutVars, achVars>>

\* The upserts of group g return, or one throws (catch: 500; the groups
\* upserted before stay).  After the last group the handler answers 200.
SeedUpsert(r, g, fault) ==
    /\ g \in 1..Len(SeedGroups)
    /\ sreq[r].pc = SeedGroups[g]
    /\ IF fault
       THEN /\ sreq' = [sreq EXCEPT ![r] = [@ EXCEPT !.pc = "done", !.status = 500]]
            /\ UNCHANGED seeded
       ELSE /\ seeded' = seeded \cup {SeedGroups[g]}
            /\ sreq' = [sreq EXCEPT ![r] =
                           IF g = Len(SeedGroups)
                           THEN [@ EXCEPT !.pc = "done", !.status = 200]
                           ELSE [@ EXCEPT !.pc = SeedGroups[g + 1]]]
    /\ UNCHANGED <<seedSecret, authVars, streakVars, healthVars, enrollVars, gateVars,
                   profileVars, trackVars, shutVars, achVars>>

InitSeed ==
    /\ backend = "db"
    /\ redisOn = FALSE
    /\ quota = MaxSeedRequests
    /\ InitAuthVars
    /\ InitStreakVars
    /\ InitHealthVars
    /\ InitEnrollVars
    /\ InitGateVars
    /\ InitProfileVars
    /\ InitTrackVars
    /\ InitShutVars
    /\ InitAchVars
    /\ seedSecret \in SeedSecrets
    /\ seeded = {}
    /\ sreq = [r \in Slots |-> IdleSeed]

NextSeed ==
    \/ \E r \in Slots, secret \in SecretValues : SeedStart(r, secret)
    \/ \E r \in Slots, g \in 1..Len(SeedGroups), fault \in Faults : SeedUpsert(r, g, fault)

SpecSeed == InitSeed /\ [][NextSeed]_vars

\* C21: the seed route writes nothing except for a request whose ?secret= is
\* present and equal to a set SEED_SECRET; with SEED_SECRET not set (or
\* empty) every request is answered 500, and with it set a request with a
\* missing or different secret is answered 401.
C21_SeedNeedsSecret ==
    /\ [][seeded' # seeded =>
            \E r \in Slots :
                /\ sreq[r].pc \notin {"idle", "done"}
                /\ sreq'[r] # sreq[r]
                /\ sreq[r].secret # {}
                /\ sreq[r].secret = seedSecret]_vars
    /\ [](\A r \in Slots :
            sreq[r].pc = "done" =>
                /\ seedSecret \in {{}, {""}} => sreq[r].status = 500
                /\ (seedSecret \notin {{}, {""}} /\ sreq[r].secret # seedSecret) =>
                       sreq[r].status = 401)
    /\ [](seedSecret \in {{}, {""}} => seeded = {})

\* With SEED_SECRET set, a request with the right secret has seeded every
\* group and one with another secret got 401.
C21_Witness ==
    /\ seedSecret = {"s3cret"}
    /\ seeded = {"exercises", "achievements", "programs"}
    /\ \E r, q \in Slots :
        /\ sreq[r].pc = "done" /\ sreq[r].status = 200 /\ sreq[r].secret = seedSecret
        /\ sreq[q].pc = "done" /\ sreq[q].status = 401 /\ sreq[q].secret = {"guess"}


(***************************************************************************)
(* The Redis-backed router with redis not configured (redis === null).     *)
(***************************************************************************)
\* Any record of the token the router could consult: a RefreshToken row or
\* the live value of the user's redis key.
Recorded(t) == RowsOfToken(t) # {} \/ (t.uid \in DOMAIN redisStore /\ RedisGet(t.uid) = {t})

\* C22: with redis not configured, the Redis-backed POST /auth/refresh answers
\* 401 to a token of which no record is stored and to a token that a logout
\* presented while it was valid, and accepts no token that was issued before
\* a password change of its user.
C22_RevocableWithoutRedis ==
    (backend = "redis" /\ ~redisOn) =>
        /\ \A r \in Slots :
               (/\ AnsweredRefresh(r)
                /\ req[r].token # NoToken
                /\ (~Recorded(req[r].token) \/ "loggedOut" \in req[r].replay))
                   => req[r].status = 401
        /\ \A t \in hist.stale : ~Accepted(t)


\* C23: the streak by which GET /progress/achievements decides week_warrior
\* and month_streak equals the currentStreak that GET /progress/streaks
\* computes from the same logs.
C23_StreakComputationsAgree ==
    \A a \in achResp :
        a.pc = "done" => a.streak = ComputeStreaks(a.logs).currentStreak

=============================================================================
